---------------------------- MODULE Spec2Model ----------------------------
(***************************************************************************)
(* A model of @janiscommerce/microservice-call.                            *)
(*                                                                         *)
(* The library resolves a logical triple (service, namespace, method) to   *)
(* a physical endpoint through a discovery lookup that is cached for the   *)
(* life of the process, fetches the service secret, sends the request and  *)
(* normalises the answer; call() raises on statusCode >= 400, safeCall()   *)
(* does not; list()/safeList() aggregate the pages of a list API.          *)
(*                                                                         *)
(* JavaScript runs one continuation at a time: an action of this model is  *)
(* the code that runs between two awaits.  Values of JavaScript are        *)
(* records tagged by their type in field t.                                *)
(***************************************************************************)
EXTENDS Integers, Sequences, FiniteSets, TLC

VARIABLES
    env,          \* process.env: JANIS_ENV and JANIS_SERVICE_SECRET
    cache,        \* lib/discovery.js: the module variable cache
    secretValue,  \* SecretFetcher.secretValue
    proc,         \* the call() / safeCall() invocations in progress
    resolved,     \* history: triples some lookup has resolved successfully
    session,      \* MicroServiceCall instance field session
    apiKeyUser,   \* MicroServiceCall instance field apiKeyUser
    userSet,      \* history: the argument of setUserId since the latest request, if any
    rcache,       \* router-fetcher MicroServiceCall: the static cache (of promises)
    promises,     \* the promises routerFetcher.getEndpoint() has returned
    efSetting,    \* Settings.get('discoveryHost')
    efEndpoint,   \* EndpointFetcher._endpoint
    efCache,      \* EndpointFetcher.cache
    efProc,       \* the EndpointFetcher.get() lookups in progress
    makeSafeCall, \* MicroServiceCall instance field makeSafeCall
    lister,       \* the list() / safeList() invocations in progress
    backend,      \* the remote list API
    msgIn,        \* input of the error-message computation of call()
    msgOut,       \* its result
    urlIn,        \* input of _getUrlWithEndpointParameters
    urlOut,       \* its result
    retryIn,      \* argument of shouldRetry
    retryOut      \* its result

mainVars   == <<env, cache, secretValue, proc, resolved, session, apiKeyUser, userSet>>
routerVars == <<rcache, promises>>
efVars     == <<efSetting, efEndpoint, efCache, efProc>>
listVars   == <<makeSafeCall, lister, backend>>
msgVars    == <<msgIn, msgOut, retryIn, retryOut>>
urlVars    == <<urlIn, urlOut>>
vars == <<mainVars, routerVars, efVars, listVars, msgVars, urlVars>>

---------------------------------------------------------------------------
(* Bounds of the model.                                                    *)

NumProcs == 2     \* concurrent call()/safeCall() invocations
NumListers == 1   \* concurrent list()/safeList() invocations on the instance
MaxItems == 3     \* items the remote list API holds
MaxPageSize == 2  \* the largest pageSize argument of list()
MaxTokens == 3    \* tokens of an endpoint template (pure check of the URL)

---------------------------------------------------------------------------
(* JavaScript values.                                                      *)

Undefined == [t |-> "undefined"]
Null      == [t |-> "null"]
False     == [t |-> "boolean", b |-> FALSE]
Str(s)    == [t |-> "string", v |-> s]
Num(n)    == [t |-> "number", n |-> n]
Obj(fs)   == [t |-> "object", fields |-> fs]   \* fs: sequence of <<key, value>>
Arr(xs)   == [t |-> "array", items |-> xs]

\* ToBoolean: undefined, null, false, '' and 0 are falsy; objects and arrays are truthy
Truthy(x) ==
    CASE x.t = "undefined" -> FALSE
      [] x.t = "null"      -> FALSE
      [] x.t = "boolean"   -> x.b
      [] x.t = "string"    -> x.v # ""
      [] x.t = "number"    -> x.n # 0
      [] OTHER             -> TRUE

Digits == <<"0", "1", "2", "3", "4", "5", "6", "7", "8", "9">>

RECURSIVE NumStr(_)
\* String(n) of a non-negative integer
NumStr(n) == IF n < 10 THEN Digits[n + 1] ELSE NumStr(n \div 10) \o Digits[(n % 10) + 1]

\* String(x) of a string or a number, as a template literal or replace() coerces it
ToStr(x) == IF x.t = "number" THEN NumStr(x.n) ELSE x.v

\* body.key: the value of a field of an object, undefined for anything else
GetField(x, key) ==
    IF x.t = "object" /\ \E i \in 1..Len(x.fields) : x.fields[i][1] = key
    THEN x.fields[CHOOSE i \in 1..Len(x.fields) : x.fields[i][1] = key][2]
    ELSE Undefined

JsonScalar(x) == IF x.t = "number" THEN NumStr(x.n) ELSE "\"" \o x.v \o "\""

RECURSIVE JsonFields(_)
JsonFields(fs) ==
    IF fs = <<>> THEN ""
    ELSE "\"" \o fs[1][1] \o "\":" \o JsonScalar(fs[1][2])
         \o (IF Len(fs) > 1 THEN "," ELSE "") \o JsonFields(Tail(fs))

RECURSIVE JsonItems(_)
JsonItems(xs) ==
    IF xs = <<>> THEN ""
    ELSE JsonScalar(xs[1]) \o (IF Len(xs) > 1 THEN "," ELSE "") \o JsonItems(Tail(xs))

\* JSON.stringify of a string, a number, or an object or array of such
JsonStringify(x) ==
    CASE x.t = "object" -> "{" \o JsonFields(x.fields) \o "}"
      [] x.t = "array"  -> "[" \o JsonItems(x.items) \o "]"
      [] OTHER          -> JsonScalar(x)

---------------------------------------------------------------------------
(* Errors and responses.                                                   *)

\* new MicroServiceCallError(err, code, statusCode); statusCode 0 stands for undefined
MsError(message, code, statusCode) ==
    [name |-> "MicroServiceCallError", message |-> message, code |-> code,
     statusCode |-> statusCode]

\* an error of a lower layer that is not a MicroServiceCallError
RawError(message) ==
    [name |-> "Error", message |-> message, code |-> "NONE", statusCode |-> 0]

Resolved(v) == [t |-> "resolved", value |-> v]
Rejected(e) == [t |-> "rejected", error |-> e]
Pending     == [t |-> "pending"]

\* { headers, statusCode: status, statusMessage: statusText, body: data }
Normalize(res) ==
    [headers |-> res.headers, statusCode |-> res.status,
     statusMessage |-> res.statusText, body |-> res.data]

\* a variant that never looks at body.message
ErrorMessageJsonOnly(body) ==
    IF Truthy(body) THEN JsonStringify(body) ELSE "No response body"

\* (body && (body.message || JSON.stringify(body))) || 'No response body'
ErrorMessage(body) ==
    IF Truthy(body)
    THEN IF Truthy(GetField(body, "message"))
         THEN ToStr(GetField(body, "message"))
         ELSE JsonStringify(body)
    ELSE "No response body"

\* a variant that throws on 5xx only
CallOutcomeServerOnly(response) ==
    IF response.statusCode >= 500
    THEN Rejected(MsError("Microservice failed (" \o NumStr(response.statusCode) \o "): "
                            \o ErrorMessage(response.body),
                          "MICROSERVICE_FAILED", response.statusCode))
    ELSE Resolved(response)

\* the tail of call(): throw on statusCode >= 400, else return the response
CallOutcome(response) ==
    IF response.statusCode >= 400
    THEN Rejected(MsError("Microservice failed (" \o NumStr(response.statusCode) \o "): "
                            \o ErrorMessage(response.body),
                          "MICROSERVICE_FAILED", response.statusCode))
    ELSE Resolved(response)

---------------------------------------------------------------------------
(* Path substitution.  An endpoint is a sequence of tokens; the token      *)
(* "{k}" is the placeholder of key k, every other token is literal text.   *)

Placeholder(k) == "{" \o k \o "}"

RECURSIVE Join(_)
Join(tokens) == IF tokens = <<>> THEN "" ELSE tokens[1] \o Join(Tail(tokens))

\* String.prototype.replace(pattern, value) with a string pattern: the first match only
ReplaceFirst(tokens, ph, val) ==
    LET idx == {i \in 1..Len(tokens) : tokens[i] = ph}
    IN  IF idx = {} THEN tokens
        ELSE [tokens EXCEPT ![CHOOSE i \in idx : \A j \in idx : i <= j] = val]

\* a variant that replaces every match (replaceAll)
ReplaceEvery(tokens, ph, val) ==
    [i \in 1..Len(tokens) |-> IF tokens[i] = ph THEN val ELSE tokens[i]]

RECURSIVE ReduceParams(_, _)
\* Object.keys(endpointParameters).reduce(..., endpoint)
ReduceParams(entries, acc) ==
    IF entries = <<>> THEN acc
    ELSE ReduceParams(Tail(entries),
                      ReplaceFirst(acc, Placeholder(entries[1][1]), ToStr(entries[1][2])))

RECURSIVE ReduceParamsEvery(_, _)
ReduceParamsEvery(entries, acc) ==
    IF entries = <<>> THEN acc
    ELSE ReduceParamsEvery(Tail(entries),
                      ReplaceEvery(acc, Placeholder(entries[1][1]), ToStr(entries[1][2])))

GetUrlEvery(endpoint, endpointParameters) ==
    IF Truthy(endpointParameters)
    THEN ReduceParamsEvery(endpointParameters.fields, endpoint)
    ELSE endpoint

\* a variant that substitutes the last key only
GetUrlLastKeyOnly(endpoint, endpointParameters) ==
    IF Truthy(endpointParameters) /\ endpointParameters.fields # <<>>
    THEN ReduceParams(<<endpointParameters.fields[Len(endpointParameters.fields)]>>, endpoint)
    ELSE endpoint

\* MicroServiceCall._getUrlWithEndpointParameters
GetUrlWithEndpointParameters(endpoint, endpointParameters) ==
    IF Truthy(endpointParameters)
    THEN ReduceParams(endpointParameters.fields, endpoint)
    ELSE endpoint

---------------------------------------------------------------------------
(* The environment of the call pipeline.                                   *)

Triples == {<<"sample-service", "alarms", "post">>, <<"sample-service", "sample-entity", "list">>}
NoTriple == <<"", "", "">>

\* what the discovery service knows about a triple: baseUrl, path, method
Registry(t) ==
    IF t[2] = "alarms"
    THEN [baseUrl |-> <<"https://sample-service.janis-test.in">>,
          path |-> <<"/api/alarms/", "{alarmName}", "/state/", "{alarmState}">>,
          method |-> "POST", errorMessage |-> ""]
    ELSE [baseUrl |-> <<"https://sample-service.janis-test.in">>,
          path |-> <<"/api/sample-entity">>,
          method |-> "get", errorMessage |-> ""]

NoAnswer == [kind |-> "none"]

\* what Invoker.serviceCall('discovery', 'GetEndpoint', triple) can settle with;
\* an absent field of the payload is the empty string
DiscoveryAnswers(t) ==
    {[kind |-> "resolve", payload |-> Registry(t), functionError |-> ""],
     [kind |-> "resolve", payload |-> [Registry(t) EXCEPT !.errorMessage = "Endpoint not found"],
      functionError |-> ""],
     [kind |-> "resolve", payload |-> Registry(t), functionError |-> "Unhandled"],
     [kind |-> "resolve", payload |-> [Registry(t) EXCEPT !.baseUrl = <<>>], functionError |-> ""],
     [kind |-> "resolve", payload |-> [Registry(t) EXCEPT !.path = <<>>], functionError |-> ""],
     [kind |-> "resolve", payload |-> [Registry(t) EXCEPT !.method = ""], functionError |-> ""],
     [kind |-> "reject", message |-> "Lambda invoke failed"]}

\* what secretHandler.getValue() can settle with
SecretAnswers ==
    {[kind |-> "resolve", value |-> Obj(<< <<"apiSecret", Str("fetched-secret")>> >>)],
     [kind |-> "resolve", value |-> Obj(<<>>)],
     [kind |-> "resolve", value |-> Undefined],
     [kind |-> "reject", message |-> "Secrets manager failed"]}

JsonHeaders == Obj(<< <<"content-type", Str("application/json")>> >>)

\* what axios.request() can settle with (validateStatus accepts every status)
RemoteAnswers ==
    {[kind |-> "resolve", status |-> 200, statusText |-> Null, headers |-> JsonHeaders,
      data |-> Obj(<< <<"id", Str("foo-id")>> >>)],
     [kind |-> "resolve", status |-> 399, statusText |-> Null, headers |-> JsonHeaders,
      data |-> Str("")],
     [kind |-> "resolve", status |-> 400, statusText |-> Null, headers |-> JsonHeaders,
      data |-> Obj(<< <<"foo", Str("bar")>> >>)],
     [kind |-> "resolve", status |-> 404, statusText |-> Null, headers |-> JsonHeaders,
      data |-> Obj(<< <<"message", Str("Not found")>> >>)],
     [kind |-> "resolve", status |-> 504, statusText |-> Null, headers |-> Obj(<<>>),
      data |-> Str("")],
     [kind |-> "reject", message |-> "Some lib error"]}

\* the endpointParameters the callers pass for a triple
CallParams(t) ==
    IF t[2] = "alarms"
    THEN {Obj(<< <<"alarmName", Str("foo")>>, <<"alarmState", Str("ok")>> >>)}
    ELSE {Null}

Envs == [janisEnv : {"local", "prod"}, serviceSecret : {"", "insecure-secret"}]

---------------------------------------------------------------------------
(* Discovery (lib/discovery.js).                                           *)

\* `${service}.${namespace}.${method}`
CacheKey(t) == t[1] \o "." \o t[2] \o "." \o t[3]

Keys == {CacheKey(t) : t \in Triples}

NoDesc == [endpoint |-> <<>>, httpMethod |-> ""]

\* what getEndpoint does with the answer of the lookup: a thrown error, or the descriptor
DiscoveryResult(ans) ==
    IF ans.kind = "reject" THEN Rejected(RawError(ans.message))
    ELSE LET errorMsg == IF ans.payload.errorMessage # "" THEN ans.payload.errorMessage
                         ELSE ans.functionError
         IN  IF errorMsg # ""
             THEN Rejected(MsError("Service Discovery fails getting endpoint. Error: " \o errorMsg,
                                   "DISCOVERY_ERROR", 0))
             ELSE IF ans.payload.baseUrl = <<>> \/ ans.payload.path = <<>> \/ ans.payload.method = ""
             THEN Rejected(MsError("Could not get base url, path or method.", "DISCOVERY_ERROR", 0))
             ELSE Resolved([endpoint |-> ans.payload.baseUrl \o ans.payload.path,
                            httpMethod |-> ans.payload.method])

\* a variant that stores nothing
CacheStoreNothing(c, key, desc) == c

\* a variant that writes the fields of an entry one by one, the endpoint only once
CacheStoreByField(c, key, desc) ==
    [c EXCEPT ![key] = IF c[key].endpoint = <<>> THEN desc
                       ELSE [endpoint |-> c[key].endpoint, httpMethod |-> desc.httpMethod]]

\* cache[cacheKey] = { endpoint, httpMethod }
CacheStore(c, key, desc) == [c EXCEPT ![key] = desc]

\* if(!cache[cacheKey]): a stored descriptor is an object, hence truthy
CacheMiss(c, key) == c[key] = NoDesc

---------------------------------------------------------------------------
(* SecretFetcher (secret-fetcher.js).                                      *)

LocalSecretValue == Str("local-environment-secret")

\* a variant in which the environment secret comes before local mode
SecretFromEnvSecretFirst(e, current) ==
    IF e.serviceSecret # "" THEN Str(e.serviceSecret)
    ELSE IF e.janisEnv = "local" THEN LocalSecretValue
    ELSE current

\* the assignments at the top of fetch()
SecretFromEnv(e, current) ==
    IF e.janisEnv = "local" THEN LocalSecretValue
    ELSE IF e.serviceSecret # "" THEN Str(e.serviceSecret)
    ELSE current

\* a variant that keeps nothing between calls
ShouldFetchSecretAlways(value) == TRUE

\* typeof this.secretValue === 'undefined'
ShouldFetchSecret(value) == value.t = "undefined"

\* this.secretValue && this.secretValue.apiSecret ? this.secretValue.apiSecret : false
SecretFromStore(ans) ==
    IF ans.kind = "resolve" /\ Truthy(ans.value) /\ Truthy(GetField(ans.value, "apiSecret"))
    THEN GetField(ans.value, "apiSecret")
    ELSE False

SecretMissing == MsError("Microservice failed: Secret is missing", "JANIS_SECRET_MISSING", 0)

\* a variant that wraps every error
MakeRequestCatchWrapAll(error) == MsError(error.message, "REQUEST_LIB_ERROR", 0)

\* the catch of _makeRequest: a MicroServiceCallError is thrown again as it is
MakeRequestCatch(error) ==
    IF error.name = "MicroServiceCallError" THEN error
    ELSE MsError(error.message, "REQUEST_LIB_ERROR", 0)

---------------------------------------------------------------------------
(* The configuration of a request (_makeRequest).                          *)

\* process.env.JANIS_SERVICE_NAME
ServiceName == "dummy-service"

HasKey(fs, k) == \E i \in 1..Len(fs) : fs[i][1] = k

\* target[k] = v: an own key keeps its place, a new key goes last
SetKey(fs, k, v) ==
    IF HasKey(fs, k)
    THEN [i \in 1..Len(fs) |-> IF fs[i][1] = k THEN <<k, v>> ELSE fs[i]]
    ELSE Append(fs, <<k, v>>)

RECURSIVE SpreadFields(_, _)
SpreadFields(fs, src) ==
    IF src = <<>> THEN fs
    ELSE SpreadFields(SetKey(fs, src[1][1], src[1][2]), Tail(src))

\* a variant in which the first source wins
SpreadKeepFirst(target, source) ==
    IF source.t = "object"
    THEN Obj(SpreadFields(source.fields, target.fields))
    ELSE target

\* { ...target, ...source }: spreading undefined or null adds nothing
Spread(target, source) ==
    IF source.t = "object"
    THEN Obj(SpreadFields(target.fields, source.fields))
    ELSE target

\* get credentialsHeaders()
CredentialsHeaders(user, secret) ==
    Obj(<< <<"janis-api-key", Str("service-" \o ServiceName \o
                                  (IF Truthy(user) THEN "_user-" \o ToStr(user) ELSE ""))>>,
           <<"janis-api-secret", secret>> >>)

\* get sessionHeaders()
SessionHeaders(sess) ==
    IF Truthy(sess)
    THEN Obj((IF Truthy(GetField(sess, "clientCode"))
              THEN << <<"janis-client", GetField(sess, "clientCode")>> >> ELSE <<>>)
             \o (IF Truthy(GetField(sess, "userId"))
                 THEN << <<"x-janis-user", GetField(sess, "userId")>> >> ELSE <<>>))
    ELSE Obj(<<>>)

\* the object getBasicHeaders() returns
BasicHeaders(user, secret, sess) ==
    Spread(Spread(JsonHeaders, CredentialsHeaders(user, secret)), SessionHeaders(sess))

LowerCase == "abcdefghijklmnopqrstuvwxyz"
UpperCase == "ABCDEFGHIJKLMNOPQRSTUVWXYZ"

UpperChar(c) ==
    IF \E i \in 1..Len(LowerCase) : SubSeq(LowerCase, i, i) = c
    THEN LET i == CHOOSE j \in 1..Len(LowerCase) : SubSeq(LowerCase, j, j) = c
         IN  SubSeq(UpperCase, i, i)
    ELSE c

RECURSIVE ToUpperCase(_)
\* String.prototype.toUpperCase
ToUpperCase(s) ==
    IF s = "" THEN "" ELSE UpperChar(SubSeq(s, 1, 1)) \o ToUpperCase(SubSeq(s, 2, Len(s)))

\* a variant that compares the verb as it is written
QsExactCase(httpMethod, requestData) ==
    IF httpMethod \in {"GET", "DELETE"} THEN requestData ELSE Undefined

\* let qs; if(['GET', 'DELETE'].includes(httpMethod.toUpperCase())) qs = requestData
Qs(httpMethod, requestData) ==
    IF ToUpperCase(httpMethod) \in {"GET", "DELETE"} THEN requestData ELSE Undefined

\* let requestBody; if(['POST', 'PUT', 'PATCH'].includes(...)) requestBody = requestData
RequestBody(httpMethod, requestData) ==
    IF ToUpperCase(httpMethod) \in {"POST", "PUT", "PATCH"} THEN requestData ELSE Undefined

\* a variant that keeps the user id
ClearUserNever(user) == user

\* getBasicHeaders: this.apiKeyUser = null (clear user id for api key)
ClearUser(user) == Null

\* no request of the call is with axios
NoRequest == [headers |-> Undefined, data |-> Undefined, params |-> Undefined]

\* the headers, data and params of the configuration passed to axios.request
RequestConfig(basic, requestHeaders, httpMethod, requestData) ==
    [headers |-> Spread(basic, requestHeaders),
     data |-> RequestBody(httpMethod, requestData),
     params |-> Qs(httpMethod, requestData)]

\* the instance before any use
InstanceInit ==
    session = Undefined /\ apiKeyUser = Undefined /\ userSet = Undefined

---------------------------------------------------------------------------
(* _makeRequest: the result of the exchange.                               *)

\* axios with its default validateStatus rejects a status >= 300
MakeRequestResultDefaultValidate(ans) ==
    IF ans.kind = "reject" \/ ans.status >= 300
    THEN Rejected(MsError(IF ans.kind = "reject" THEN ans.message ELSE "Request failed",
                          "REQUEST_LIB_ERROR", 0))
    ELSE Resolved(Normalize(ans))

\* the try/catch around axios.request
MakeRequestResult(ans) ==
    IF ans.kind = "reject"
    THEN Rejected(MsError(ans.message, "REQUEST_LIB_ERROR", 0))
    ELSE Resolved(Normalize(ans))

\* a variant that throws as call() does
SafeCallOutcomeAsCall(r) == IF r.t = "resolved" THEN CallOutcome(r.value) ELSE r

\* safeCall() returns what _makeRequest returns
SafeCallOutcome(r) == r

Outcome(kind, r) ==
    IF kind = "call" THEN (IF r.t = "resolved" THEN CallOutcome(r.value) ELSE r)
    ELSE SafeCallOutcome(r)

---------------------------------------------------------------------------
(* call() and safeCall() of the Discovery-backed MicroServiceCall.         *)

Procs == 1..NumProcs

\* The continuation of a settled promise is a microtask, and the event loop runs every
\* pending microtask before it delivers the next I/O event: the answer of a lookup, of
\* the secret store or of the remote service arrives only when no call has a
\* continuation waiting to run.
NoMicrotask ==
    \A q \in Procs :
        /\ proc[q].pc \notin {"endpoint", "ready", "done"}
        /\ proc[q].pc = "lookup" => promises[proc[q].promise].state = "pending"

Idle ==
    [pc |-> "idle", kind |-> "none", triple |-> NoTriple, params |-> Undefined,
     data |-> Undefined, headers |-> Undefined, desc |-> NoDesc, promise |-> 0, dreq |-> 0, sreq |-> 0, rreq |-> 0,
     dAns |-> NoAnswer, sAns |-> NoAnswer, rAns |-> NoAnswer,
     url |-> <<>>, request |-> NoRequest, chained |-> Undefined, outcome |-> Pending]

\* the secret comes from the secret store (SpecSecrets has every environment)
MainInit ==
    /\ env = [janisEnv |-> "prod", serviceSecret |-> ""]
    /\ cache = [k \in Keys |-> NoDesc]
    /\ secretValue = Undefined
    /\ proc = [p \in Procs |-> Idle]
    /\ resolved = {}
    /\ InstanceInit

MainQuiet ==
    /\ cache = [k \in Keys |-> NoDesc]

\* the Discovery-backed pipeline at rest
MainIdle ==
    /\ env = [janisEnv |-> "prod", serviceSecret |-> ""]
    /\ MainQuiet
    /\ secretValue = Undefined
    /\ proc = [p \in Procs |-> Idle]
    /\ resolved = {}
    /\ InstanceInit

\* an invocation of call or safeCall that has run to the first await of Discovery.getEndpoint
StartedCall(kind, t, params, headers) ==
    IF CacheMiss(cache, CacheKey(t))
    THEN [Idle EXCEPT !.pc = "discovery", !.kind = kind, !.triple = t, !.params = params,
                      !.headers = headers, !.dreq = 1]
    ELSE [Idle EXCEPT !.pc = "endpoint", !.kind = kind, !.triple = t, !.params = params,
                      !.headers = headers, !.desc = cache[CacheKey(t)]]

\* call(...) or safeCall(...) is invoked
CallStart(p, kind, t, params) ==
    /\ proc[p].pc = "idle"
    /\ \A q \in Procs : q < p => proc[q].pc # "idle"   \* the slots are interchangeable
    /\ proc' = [proc EXCEPT ![p] = StartedCall(kind, t, params, Undefined)]
    /\ UNCHANGED <<env, cache, secretValue, resolved, session, apiKeyUser, userSet>>

\* Invoker.serviceCall settles: the rest of Discovery.getEndpoint
DiscoveryAnswer(p, ans) ==
    /\ proc[p].pc = "discovery"
    /\ NoMicrotask
    /\ LET r == DiscoveryResult(ans)
           key == CacheKey(proc[p].triple)
       IN  IF r.t = "rejected"
           THEN /\ proc' = [proc EXCEPT ![p].pc = "done", ![p].dAns = ans, ![p].outcome = r]
                /\ UNCHANGED <<cache, resolved>>
           ELSE /\ cache' = CacheStore(cache, key, r.value)
                /\ resolved' = resolved \cup {proc[p].triple}
                /\ proc' = [proc EXCEPT ![p].pc = "endpoint", ![p].dAns = ans,
                                        ![p].desc = cache'[key]]
    /\ UNCHANGED <<env, secretValue, session, apiKeyUser, userSet>>

\* _makeRequest up to the await of SecretFetcher.fetch(), the secret being at hand
SecretStart(p) ==
    /\ proc[p].pc = "endpoint"
    /\ secretValue' = SecretFromEnv(env, secretValue)
    /\ IF ShouldFetchSecret(secretValue')
       THEN proc' = [proc EXCEPT ![p].pc = "secret", ![p].sreq = 1]
       ELSE proc' = [proc EXCEPT ![p].pc = "ready"]
    /\ UNCHANGED <<env, cache, resolved, session, apiKeyUser, userSet>>

\* AwsSecretsManager.secret() throws: caught, secretValue = false, JANIS_SECRET_MISSING
SecretThrows(p) ==
    /\ proc[p].pc = "endpoint"
    /\ ShouldFetchSecret(SecretFromEnv(env, secretValue))
    /\ secretValue' = False
    /\ proc' = [proc EXCEPT ![p].pc = "done", ![p].sreq = 1,
                            ![p].sAns = [kind |-> "throw", message |-> "Secrets manager failed"],
                            ![p].outcome = Rejected(MakeRequestCatch(SecretMissing))]
    /\ UNCHANGED <<env, cache, resolved, session, apiKeyUser, userSet>>

\* secretHandler.getValue() settles: the rest of SecretFetcher.fetch()
SecretAnswer(p, ans) ==
    /\ proc[p].pc = "secret"
    /\ NoMicrotask
    /\ secretValue' = SecretFromStore(ans)
    /\ IF secretValue' = False
       THEN proc' = [proc EXCEPT ![p].pc = "done", ![p].sAns = ans,
                                 ![p].outcome = Rejected(MakeRequestCatch(SecretMissing))]
       ELSE proc' = [proc EXCEPT ![p].pc = "ready", ![p].sAns = ans]
    /\ UNCHANGED <<env, cache, resolved, session, apiKeyUser, userSet>>

\* after the await of SecretFetcher.fetch(): axios.request is invoked
RequestSend(p) ==
    /\ proc[p].pc = "ready"
    /\ proc' = [proc EXCEPT ![p].pc = "request", ![p].rreq = proc[p].rreq + 1,
                            ![p].url = GetUrlWithEndpointParameters(proc[p].desc.endpoint,
                                IF proc[p].params = Undefined THEN Obj(<<>>) ELSE proc[p].params),
                            ![p].request = RequestConfig(
                                BasicHeaders(apiKeyUser, secretValue, session),
                                proc[p].headers, proc[p].desc.httpMethod, proc[p].data)]
    /\ apiKeyUser' = ClearUser(apiKeyUser)
    /\ userSet' = Undefined
    /\ UNCHANGED <<env, cache, secretValue, resolved, session>>

\* axios.request settles: the rest of _makeRequest, then of call() or safeCall()
RemoteAnswer(p, ans) ==
    /\ proc[p].pc = "request"
    /\ NoMicrotask
    /\ proc' = [proc EXCEPT ![p].pc = "done", ![p].rAns = ans, ![p].request = NoRequest,
                            ![p].outcome = Outcome(proc[p].kind, MakeRequestResult(ans))]
    /\ UNCHANGED <<env, cache, secretValue, resolved, session, apiKeyUser, userSet>>

\* the caller has its result; it may call again
CallReturn(p) ==
    /\ proc[p].pc = "done"
    /\ proc' = [proc EXCEPT ![p] = Idle]
    /\ UNCHANGED <<env, cache, secretValue, resolved, session, apiKeyUser, userSet>>

RouterIdle == rcache = <<>> /\ promises = <<>>
EfIdle == efSetting = "" /\ efEndpoint = "" /\ efCache = <<>> /\ efProc = <<>>
ListIdle == makeSafeCall = FALSE /\ lister = <<>> /\ backend = 0
MsgIdle ==
    msgIn = Undefined /\ msgOut = Undefined /\ retryIn = Undefined /\ retryOut = Undefined
UrlIdle == urlIn = Undefined /\ urlOut = Undefined

Init == MainInit /\ RouterIdle /\ EfIdle /\ ListIdle /\ MsgIdle /\ UrlIdle

Next ==
    \/ \E p \in Procs, kind \in {"call", "safeCall"}, t \in Triples : \E params \in CallParams(t) :
          CallStart(p, kind, t, params) /\ UNCHANGED <<routerVars, efVars, listVars, msgVars, urlVars>>
    \/ \E p \in Procs : \E ans \in DiscoveryAnswers(proc[p].triple) :
          DiscoveryAnswer(p, ans) /\ UNCHANGED <<routerVars, efVars, listVars, msgVars, urlVars>>
    \/ \E p \in Procs : SecretStart(p) /\ UNCHANGED <<routerVars, efVars, listVars, msgVars, urlVars>>
    \/ \E p \in Procs : SecretThrows(p) /\ UNCHANGED <<routerVars, efVars, listVars, msgVars, urlVars>>
    \/ \E p \in Procs, ans \in SecretAnswers :
          SecretAnswer(p, ans) /\ UNCHANGED <<routerVars, efVars, listVars, msgVars, urlVars>>
    \/ \E p \in Procs : RequestSend(p) /\ UNCHANGED <<routerVars, efVars, listVars, msgVars, urlVars>>
    \/ \E p \in Procs, ans \in RemoteAnswers :
          RemoteAnswer(p, ans) /\ UNCHANGED <<routerVars, efVars, listVars, msgVars, urlVars>>
    \/ \E p \in Procs : CallReturn(p) /\ UNCHANGED <<routerVars, efVars, listVars, msgVars, urlVars>>

Spec == Init /\ [][Next]_vars

---------------------------------------------------------------------------
(* One instance with a session, setUserId and caller-supplied headers.     *)

\* the values of the instance field session
Sessions ==
    {Undefined,
     Obj(<<>>),
     Obj(<< <<"clientCode", Str("fizzmod")>> >>),
     Obj(<< <<"clientCode", Str("fizzmod")>>, <<"userId", Str("dummy-user-id")>> >>)}

\* the requestHeaders the callers pass
CallerHeaders ==
    {Null,
     Obj(<< <<"content-type", Str("text/plain")>>, <<"janis-client", Str("other-client")>> >>),
     Obj(<< <<"janis-api-secret", Str("caller-secret")>>, <<"x-custom", Str("1")>> >>)}

\* the arguments of setUserId
UserIds == {Str("user-1"), Str("")}

HeadersTriple == <<"sample-service", "sample-entity", "list">>

InitHeaders ==
    /\ env = [janisEnv |-> "prod", serviceSecret |-> "insecure-secret"]
    /\ MainQuiet
    /\ secretValue = Undefined
    /\ proc = [p \in Procs |-> Idle]
    /\ resolved = {}
    /\ session \in Sessions
    /\ apiKeyUser = Undefined
    /\ userSet = Undefined
    /\ RouterIdle /\ EfIdle /\ ListIdle /\ MsgIdle /\ UrlIdle

\* call(service, namespace, method, requestData, requestHeaders, endpointParameters)
CallStartWith(p, kind, t, requestData, requestHeaders, endpointParameters) ==
    /\ proc[p].pc = "idle"
    /\ \A q \in Procs : q < p => proc[q].pc # "idle"
    /\ proc' = [proc EXCEPT ![p] =
           [StartedCall(kind, t, endpointParameters, requestHeaders)
               EXCEPT !.data = requestData]]
    /\ UNCHANGED <<env, cache, secretValue, resolved, session, apiKeyUser, userSet>>

\* setUserId(userId)
SetUserId(userId) ==
    /\ apiKeyUser' = userId
    /\ userSet' = userId
    /\ UNCHANGED <<env, cache, secretValue, proc, resolved, session>>

NextHeaders ==
    \/ \E p \in Procs, headers \in CallerHeaders :
          CallStartWith(p, "safeCall", HeadersTriple, Undefined, headers, Null)
          /\ UNCHANGED <<routerVars, efVars, listVars, msgVars, urlVars>>
    \/ \E userId \in UserIds :
          SetUserId(userId) /\ UNCHANGED <<routerVars, efVars, listVars, msgVars, urlVars>>
    \/ \E p \in Procs :
          DiscoveryAnswer(p, [kind |-> "resolve", payload |-> Registry(proc[p].triple),
                              functionError |-> ""])
          /\ UNCHANGED <<routerVars, efVars, listVars, msgVars, urlVars>>
    \/ \E p \in Procs : SecretStart(p) /\ UNCHANGED <<routerVars, efVars, listVars, msgVars, urlVars>>
    \/ \E p \in Procs : RequestSend(p) /\ UNCHANGED <<routerVars, efVars, listVars, msgVars, urlVars>>
    \/ \E p \in Procs :
          RemoteAnswer(p, [kind |-> "resolve", status |-> 200, statusText |-> Null,
                           headers |-> JsonHeaders, data |-> Arr(<<>>)])
          /\ UNCHANGED <<routerVars, efVars, listVars, msgVars, urlVars>>
    \/ \E p \in Procs : CallReturn(p) /\ UNCHANGED <<routerVars, efVars, listVars, msgVars, urlVars>>

SpecHeaders == InitHeaders /\ [][NextHeaders]_vars

---------------------------------------------------------------------------
(* Verbs of every kind and request data.                                   *)

\* the method field of the discovery answers
Verbs == {"GET", "get", "Delete", "POST", "put", "Patch", "HEAD", "options"}

\* the requestData the callers pass
RequestDatas == {Obj(<< <<"foo", Str("bar")>> >>), Arr(<< Str("a") >>)}

InitVerbs ==
    /\ env = [janisEnv |-> "prod", serviceSecret |-> "insecure-secret"]
    /\ MainQuiet
    /\ secretValue = Undefined
    /\ proc = [p \in Procs |-> Idle]
    /\ resolved = {}
    /\ InstanceInit
    /\ RouterIdle /\ EfIdle /\ ListIdle /\ MsgIdle /\ UrlIdle

NextVerbs ==
    \/ \E p \in Procs, requestData \in RequestDatas :
          CallStartWith(p, "safeCall", HeadersTriple, requestData, Undefined, Undefined)
          /\ UNCHANGED <<routerVars, efVars, listVars, msgVars, urlVars>>
    \/ \E p \in Procs, verb \in Verbs :
          DiscoveryAnswer(p, [kind |-> "resolve",
                              payload |-> [Registry(proc[p].triple) EXCEPT !.method = verb],
                              functionError |-> ""])
          /\ UNCHANGED <<routerVars, efVars, listVars, msgVars, urlVars>>
    \/ \E p \in Procs : SecretStart(p) /\ UNCHANGED <<routerVars, efVars, listVars, msgVars, urlVars>>
    \/ \E p \in Procs : RequestSend(p) /\ UNCHANGED <<routerVars, efVars, listVars, msgVars, urlVars>>
    \/ \E p \in Procs :
          RemoteAnswer(p, [kind |-> "resolve", status |-> 200, statusText |-> Null,
                           headers |-> JsonHeaders, data |-> Arr(<<>>)])
          /\ UNCHANGED <<routerVars, efVars, listVars, msgVars, urlVars>>
    \/ \E p \in Procs : CallReturn(p) /\ UNCHANGED <<routerVars, efVars, listVars, msgVars, urlVars>>

SpecVerbs == InitVerbs /\ [][NextVerbs]_vars

---------------------------------------------------------------------------
(* Calls of one API in every environment, with every answer of the secret  *)
(* store.                                                                  *)

InitSecrets ==
    /\ env \in Envs
    /\ MainQuiet
    /\ secretValue = Undefined
    /\ proc = [p \in Procs |-> Idle]
    /\ resolved = {}
    /\ InstanceInit
    /\ RouterIdle /\ EfIdle /\ ListIdle /\ MsgIdle /\ UrlIdle

NextSecrets ==
    \/ \E p \in Procs, kind \in {"call", "safeCall"} :
          CallStart(p, kind, HeadersTriple, Null)
          /\ UNCHANGED <<routerVars, efVars, listVars, msgVars, urlVars>>
    \/ \E p \in Procs :
          DiscoveryAnswer(p, [kind |-> "resolve", payload |-> Registry(proc[p].triple),
                              functionError |-> ""])
          /\ UNCHANGED <<routerVars, efVars, listVars, msgVars, urlVars>>
    \/ \E p \in Procs : SecretStart(p) /\ UNCHANGED <<routerVars, efVars, listVars, msgVars, urlVars>>
    \/ \E p \in Procs : SecretThrows(p) /\ UNCHANGED <<routerVars, efVars, listVars, msgVars, urlVars>>
    \/ \E p \in Procs, ans \in SecretAnswers :
          SecretAnswer(p, ans) /\ UNCHANGED <<routerVars, efVars, listVars, msgVars, urlVars>>
    \/ \E p \in Procs : RequestSend(p) /\ UNCHANGED <<routerVars, efVars, listVars, msgVars, urlVars>>
    \/ \E p \in Procs :
          \E ans \in {a \in RemoteAnswers : a.kind = "reject" \/ a.status = 200} :
          RemoteAnswer(p, ans) /\ UNCHANGED <<routerVars, efVars, listVars, msgVars, urlVars>>
    \/ \E p \in Procs : CallReturn(p) /\ UNCHANGED <<routerVars, efVars, listVars, msgVars, urlVars>>

SpecSecrets == InitSecrets /\ [][NextSecrets]_vars

---------------------------------------------------------------------------
(* Calls chained to setUserId on one instance: setUserId(u).call(...).     *)

ChainedUsers == {Str("user-a"), Str("user-b")}

\* setUserId(userId).call(service, namespace, method): setUserId stores the user id and
\* returns the instance, call runs to its first await; chained keeps the argument
SetUserIdCall(p, userId, kind, t) ==
    /\ proc[p].pc = "idle"
    /\ \A q \in Procs : q < p => proc[q].pc # "idle"
    /\ apiKeyUser' = userId
    /\ userSet' = userId
    /\ proc' = [proc EXCEPT ![p] =
           [StartedCall(kind, t, Null, Undefined) EXCEPT !.chained = userId]]
    /\ UNCHANGED <<env, cache, secretValue, resolved, session>>

NextChained ==
    \/ \E p \in Procs, userId \in ChainedUsers, kind \in {"call", "safeCall"} :
          SetUserIdCall(p, userId, kind, HeadersTriple)
          /\ UNCHANGED <<routerVars, efVars, listVars, msgVars, urlVars>>
    \/ \E p \in Procs :
          DiscoveryAnswer(p, [kind |-> "resolve", payload |-> Registry(proc[p].triple),
                              functionError |-> ""])
          /\ UNCHANGED <<routerVars, efVars, listVars, msgVars, urlVars>>
    \/ \E p \in Procs : SecretStart(p) /\ UNCHANGED <<routerVars, efVars, listVars, msgVars, urlVars>>
    \/ \E p \in Procs : RequestSend(p) /\ UNCHANGED <<routerVars, efVars, listVars, msgVars, urlVars>>
    \/ \E p \in Procs :
          RemoteAnswer(p, [kind |-> "resolve", status |-> 200, statusText |-> Null,
                           headers |-> JsonHeaders, data |-> Arr(<<>>)])
          /\ UNCHANGED <<routerVars, efVars, listVars, msgVars, urlVars>>
    \/ \E p \in Procs : CallReturn(p) /\ UNCHANGED <<routerVars, efVars, listVars, msgVars, urlVars>>

SpecChained == InitVerbs /\ [][NextChained]_vars

---------------------------------------------------------------------------
(* Lookups whose answers differ from one request to the next.              *)

\* the registry after the service has been deployed again
RegistryAfterDeploy(t) ==
    [baseUrl |-> <<"https://sample-service.janis-test.in">>,
     path |-> <<"/api/v2/">> \o Tail(Registry(t).path),
     method |-> IF Registry(t).method = "POST" THEN "PUT" ELSE "POST",
     errorMessage |-> ""]

LookupAnswers(t) ==
    {[kind |-> "resolve", payload |-> Registry(t), functionError |-> ""],
     [kind |-> "resolve", payload |-> RegistryAfterDeploy(t), functionError |-> ""],
     [kind |-> "resolve", payload |-> [Registry(t) EXCEPT !.errorMessage = "Endpoint not found"],
      functionError |-> ""]}

NextLookups ==
    \/ \E p \in Procs, t \in Triples : \E params \in CallParams(t) :
          CallStart(p, "safeCall", t, params)
          /\ UNCHANGED <<routerVars, efVars, listVars, msgVars, urlVars>>
    \/ \E p \in Procs : \E ans \in LookupAnswers(proc[p].triple) :
          DiscoveryAnswer(p, ans) /\ UNCHANGED <<routerVars, efVars, listVars, msgVars, urlVars>>
    \/ \E p \in Procs : SecretStart(p) /\ UNCHANGED <<routerVars, efVars, listVars, msgVars, urlVars>>
    \/ \E p \in Procs : RequestSend(p) /\ UNCHANGED <<routerVars, efVars, listVars, msgVars, urlVars>>
    \/ \E p \in Procs :
          RemoteAnswer(p, [kind |-> "resolve", status |-> 200, statusText |-> Null,
                           headers |-> JsonHeaders, data |-> Arr(<<>>)])
          /\ UNCHANGED <<routerVars, efVars, listVars, msgVars, urlVars>>
    \/ \E p \in Procs : CallReturn(p) /\ UNCHANGED <<routerVars, efVars, listVars, msgVars, urlVars>>

SpecLookups == InitVerbs /\ [][NextLookups]_vars

---------------------------------------------------------------------------
(* Triples that are close to one another.                                  *)

\* a triple, the same with two parts exchanged, the same in another letter case, and two
\* triples whose parts contain the separator of the key
KeyTriples ==
    {<<"sample-service", "sample-entity", "list">>,
     <<"sample-entity", "sample-service", "list">>,
     <<"Sample-Service", "sample-entity", "list">>,
     <<"sample.service", "entity", "list">>,
     <<"sample", "service.entity", "list">>}

\* what the discovery service knows about each of them: a path of its own
KeyRegistry(t) ==
    [baseUrl |-> <<"https://janis-test.in">>,
     path |-> <<"/api/" \o t[1] \o "/" \o t[2] \o "/" \o t[3]>>,
     method |-> "get", errorMessage |-> ""]

InitKeys ==
    /\ env = [janisEnv |-> "prod", serviceSecret |-> "insecure-secret"]
    /\ cache = [k \in {CacheKey(t) : t \in KeyTriples} |-> NoDesc]
    /\ secretValue = Undefined
    /\ proc = [p \in Procs |-> Idle]
    /\ resolved = {}
    /\ InstanceInit
    /\ RouterIdle /\ EfIdle /\ ListIdle /\ MsgIdle /\ UrlIdle

NextKeys ==
    \/ \E p \in Procs, t \in KeyTriples :
          CallStart(p, "safeCall", t, Undefined)
          /\ UNCHANGED <<routerVars, efVars, listVars, msgVars, urlVars>>
    \/ \E p \in Procs :
          \E ans \in {[kind |-> "resolve", payload |-> KeyRegistry(proc[p].triple),
                       functionError |-> ""],
                      [kind |-> "reject", message |-> "Lambda invoke failed"]} :
          DiscoveryAnswer(p, ans) /\ UNCHANGED <<routerVars, efVars, listVars, msgVars, urlVars>>
    \/ \E p \in Procs : SecretStart(p) /\ UNCHANGED <<routerVars, efVars, listVars, msgVars, urlVars>>
    \/ \E p \in Procs : RequestSend(p) /\ UNCHANGED <<routerVars, efVars, listVars, msgVars, urlVars>>
    \/ \E p \in Procs :
          RemoteAnswer(p, [kind |-> "resolve", status |-> 200, statusText |-> Null,
                           headers |-> JsonHeaders, data |-> Arr(<<>>)])
          /\ UNCHANGED <<routerVars, efVars, listVars, msgVars, urlVars>>
    \/ \E p \in Procs : CallReturn(p) /\ UNCHANGED <<routerVars, efVars, listVars, msgVars, urlVars>>

SpecKeys == InitKeys /\ [][NextKeys]_vars

---------------------------------------------------------------------------
(* Calls of a triple whose endpoint has placeholders.                      *)

AlarmsTriple == <<"sample-service", "alarms", "post">>

\* the arguments of the calls: kind, requestData, requestHeaders, endpointParameters
TemplateCalls ==
    {[kind |-> "call", requestData |-> Undefined, requestHeaders |-> Null,
      endpointParameters |-> Obj(<< <<"alarmName", Str("foo")>>, <<"alarmState", Str("ok")>> >>)],
     [kind |-> "safeCall", requestData |-> Obj(<< <<"foo", Str("bar")>> >>),
      requestHeaders |-> Obj(<< <<"x-custom", Str("1")>> >>),
      endpointParameters |-> Obj(<< <<"alarmState", Str("alarm")>>, <<"alarmName", Str("bar")>> >>)],
     [kind |-> "call", requestData |-> Obj(<< <<"foo", Str("bar")>> >>),
      requestHeaders |-> Undefined,
      endpointParameters |-> Obj(<< <<"alarmName", Str("{alarmState}")>> >>)]}

NextTemplates ==
    \/ \E p \in Procs, c \in TemplateCalls :
          CallStartWith(p, c.kind, AlarmsTriple, c.requestData, c.requestHeaders,
                        c.endpointParameters)
          /\ UNCHANGED <<routerVars, efVars, listVars, msgVars, urlVars>>
    \/ \E p \in Procs : \E ans \in LookupAnswers(proc[p].triple) :
          DiscoveryAnswer(p, ans) /\ UNCHANGED <<routerVars, efVars, listVars, msgVars, urlVars>>
    \/ \E p \in Procs : SecretStart(p) /\ UNCHANGED <<routerVars, efVars, listVars, msgVars, urlVars>>
    \/ \E p \in Procs : RequestSend(p) /\ UNCHANGED <<routerVars, efVars, listVars, msgVars, urlVars>>
    \/ \E p \in Procs :
          \E ans \in {a \in RemoteAnswers : a.kind = "reject" \/ a.status \in {200, 404}} :
          RemoteAnswer(p, ans) /\ UNCHANGED <<routerVars, efVars, listVars, msgVars, urlVars>>
    \/ \E p \in Procs : CallReturn(p) /\ UNCHANGED <<routerVars, efVars, listVars, msgVars, urlVars>>

SpecTemplates == InitVerbs /\ [][NextTemplates]_vars

---------------------------------------------------------------------------
(* The router-fetcher-backed MicroServiceCall: _getEndpointData keeps the  *)
(* promise of routerFetcher.getEndpoint() in the static cache of the class.*)

\* `${service}-${namespace}-${method}`
DashKey(t) == t[1] \o "-" \o t[2] \o "-" \o t[3]

DashKeys == {DashKey(t) : t \in Triples}

\* what the request of RouterFetcher.getEndpoint can end with: an error of the request,
\* or a response with its status and body
RouterAnswers(t) ==
    {[kind |-> "resolve", status |-> 200,
      body |-> [endpoint |-> Registry(t).baseUrl \o Registry(t).path,
                httpMethod |-> Registry(t).method]],
     [kind |-> "resolve", status |-> 404, body |-> NoDesc],
     [kind |-> "resolve", status |-> 500, body |-> NoDesc],
     [kind |-> "reject", message |-> "ECONNREFUSED"]}

\* the callback of request() in RouterFetcher.getEndpoint settles the promise
RouterSettle(ans) ==
    IF ans.kind = "reject" THEN [state |-> "rejected", error |-> RawError(ans.message), value |-> NoDesc]
    ELSE IF ans.status >= 400
    THEN [state |-> "rejected", value |-> NoDesc,
          error |-> [name |-> "MicroServiceCallInvalidService", message |-> "", code |-> "NONE",
                     statusCode |-> ans.status]]
    ELSE [state |-> "fulfilled", error |-> RawError(""), value |-> ans.body]

PendingPromise == [state |-> "pending", error |-> RawError(""), value |-> NoDesc]

\* the endpointParameters the callers of this version pass
RouterParams(t) ==
    IF t[2] = "alarms"
    THEN {Obj(<< <<"alarmName", Str("foo")>>, <<"alarmState", Str("ok")>> >>)}
    ELSE {Undefined, Null}

RouterInit ==
    /\ rcache = [k \in DashKeys |-> 0]
    /\ promises = <<>>

\* call(...) or safeCall(...) is invoked: _getEndpointData runs, and the call awaits
\* the promise it returns
RouterCallStart(p, kind, t, params) ==
    /\ proc[p].pc = "idle"
    /\ \A q \in Procs : q < p => proc[q].pc # "idle"
    /\ IF rcache[DashKey(t)] = 0
       THEN /\ promises' = Append(promises, PendingPromise)
            /\ rcache' = [rcache EXCEPT ![DashKey(t)] = Len(promises) + 1]
            /\ proc' = [proc EXCEPT ![p] =
                   [Idle EXCEPT !.pc = "lookup", !.kind = kind, !.triple = t, !.params = params,
                                !.promise = Len(promises) + 1, !.dreq = 1]]
       ELSE /\ proc' = [proc EXCEPT ![p] =
                   [Idle EXCEPT !.pc = "lookup", !.kind = kind, !.triple = t, !.params = params,
                                !.promise = rcache[DashKey(t)]]]
            /\ UNCHANGED <<rcache, promises>>
    /\ UNCHANGED <<env, cache, secretValue, resolved, session, apiKeyUser, userSet>>

\* the request of the router ends: the promise kept in the cache settles
RouterAnswer(t, ans) ==
    /\ NoMicrotask
    /\ rcache[DashKey(t)] # 0
    /\ promises[rcache[DashKey(t)]].state = "pending"
    /\ promises' = [promises EXCEPT ![rcache[DashKey(t)]] = RouterSettle(ans)]
    /\ resolved' = IF promises'[rcache[DashKey(t)]].state = "fulfilled"
                   THEN resolved \cup {t} ELSE resolved
    /\ UNCHANGED <<env, cache, secretValue, proc, rcache, session, apiKeyUser, userSet>>

\* the awaited promise is settled: call() goes on with the descriptor, or rejects
RouterEndpointReady(p) ==
    /\ proc[p].pc = "lookup"
    /\ promises[proc[p].promise].state # "pending"
    /\ IF promises[proc[p].promise].state = "rejected"
       THEN proc' = [proc EXCEPT ![p].pc = "done",
                                 ![p].dAns = [kind |-> "reject"],
                                 ![p].outcome = Rejected(promises[proc[p].promise].error)]
       ELSE proc' = [proc EXCEPT ![p].pc = "endpoint",
                                 ![p].desc = promises[proc[p].promise].value]
    /\ UNCHANGED <<env, cache, secretValue, resolved, rcache, promises, session, apiKeyUser, userSet>>

\* _getUrlWithEndpointParameters of this version: Object.keys(null) throws a TypeError,
\* which the catch of _makeRequest wraps
RouterRequestSend(p) ==
    /\ proc[p].pc = "ready"
    /\ IF proc[p].params = Null
       THEN proc' = [proc EXCEPT ![p].pc = "done",
                       ![p].outcome = Rejected(MsError("Cannot convert undefined or null to object",
                                                       "REQUEST_LIB_ERROR", 0))]
       ELSE proc' = [proc EXCEPT ![p].pc = "request", ![p].rreq = proc[p].rreq + 1,
                       ![p].url = ReduceParams((IF proc[p].params = Undefined THEN Obj(<<>>)
                                                ELSE proc[p].params).fields,
                                               proc[p].desc.endpoint),
                       ![p].request = RequestConfig(
                           BasicHeaders(Undefined, secretValue, session),
                           proc[p].headers, proc[p].desc.httpMethod, proc[p].data)]
    /\ UNCHANGED <<env, cache, secretValue, resolved, rcache, promises, session, apiKeyUser,
                   userSet>>

InitRouter ==
    /\ env \in Envs
    /\ MainQuiet
    /\ secretValue = Undefined
    /\ proc = [p \in Procs |-> Idle]
    /\ resolved = {}
    /\ InstanceInit
    /\ RouterInit
    /\ EfIdle /\ ListIdle /\ MsgIdle /\ UrlIdle

NextRouter ==
    \/ \E p \in Procs, kind \in {"call", "safeCall"}, t \in Triples : \E params \in RouterParams(t) :
          RouterCallStart(p, kind, t, params) /\ UNCHANGED <<efVars, listVars, msgVars, urlVars>>
    \/ \E t \in Triples : \E ans \in RouterAnswers(t) :
          RouterAnswer(t, ans) /\ UNCHANGED <<efVars, listVars, msgVars, urlVars>>
    \/ \E p \in Procs : RouterEndpointReady(p) /\ UNCHANGED <<efVars, listVars, msgVars, urlVars>>
    \/ \E p \in Procs : SecretStart(p) /\ UNCHANGED <<routerVars, efVars, listVars, msgVars, urlVars>>
    \/ \E p \in Procs : SecretThrows(p) /\ UNCHANGED <<routerVars, efVars, listVars, msgVars, urlVars>>
    \/ \E p \in Procs, ans \in SecretAnswers :
          SecretAnswer(p, ans) /\ UNCHANGED <<routerVars, efVars, listVars, msgVars, urlVars>>
    \/ \E p \in Procs : RouterRequestSend(p) /\ UNCHANGED <<efVars, listVars, msgVars, urlVars>>
    \/ \E p \in Procs, ans \in RemoteAnswers :
          RemoteAnswer(p, ans) /\ UNCHANGED <<routerVars, efVars, listVars, msgVars, urlVars>>
    \/ \E p \in Procs : CallReturn(p) /\ UNCHANGED <<routerVars, efVars, listVars, msgVars, urlVars>>

SpecRouter == InitRouter /\ [][NextRouter]_vars

---------------------------------------------------------------------------
(* EndpointFetcher (lib/endpoint-fetcher.js), the resolver of MsCall.      *)

CompleteEndpoint(t) ==
    Obj(<< <<"path", Str(Join(Registry(t).path))>>, <<"method", Str(Registry(t).method)>>,
           <<"lambdaName", Str("ProductPublish")>> >>)

\* what the axios.request of fetch() can settle with (validateStatus accepts every status)
FetchAnswers(t) ==
    {[kind |-> "resolve", status |-> 200, data |-> CompleteEndpoint(t)],
     [kind |-> "resolve", status |-> 200,
      data |-> Obj(<< <<"path", Str(Join(Registry(t).path))>> >>)],
     [kind |-> "resolve", status |-> 200,
      data |-> Obj(<< <<"method", Str(Registry(t).method)>> >>)],
     [kind |-> "resolve", status |-> 200, data |-> Str("")],
     [kind |-> "resolve", status |-> 404, data |-> Obj(<< <<"message", Str("Not found")>> >>)],
     [kind |-> "resolve", status |-> 500, data |-> Str("")],
     [kind |-> "reject", message |-> "ECONNREFUSED"]}

DiscoveryHost == "https://janis.im/"

\* a caller of EndpointFetcher.get: the use of get on its own (kind "get"), or
\* MsCall.call / MsCall.safeCall, which reach it through invoke
EfIdleProc ==
    [pc |-> "idle", kind |-> "get", triple |-> NoTriple, headers |-> Undefined,
     dreq |-> 0, ans |-> NoAnswer, outcome |-> Pending,
     lreq |-> 0, lAns |-> NoAnswer, result |-> Pending]

\* a variant that returns the data of every response
FetchResultAnyStatus(t, ans) ==
    IF ans.kind = "reject"
    THEN Rejected(MsError(ans.message, "ENDPOINT_REQUEST_FAILED", 0))
    ELSE Resolved(ans.data)

\* the rest of fetch() once axios.request has settled
FetchResult(t, ans) ==
    IF ans.kind = "reject"
    THEN Rejected(MsError(ans.message, "ENDPOINT_REQUEST_FAILED", 0))
    ELSE IF ans.status >= 400
    THEN Rejected(MsError("Endpoint not found: " \o t[1] \o " - " \o t[2] \o " - " \o t[3],
                          "ENDPOINT_NOT_FOUND", 0))
    ELSE Resolved(ans.data)

InitFetcher ==
    /\ efSetting \in {"", DiscoveryHost}
    /\ efEndpoint = ""
    /\ efCache = [k \in DashKeys |-> Undefined]
    /\ efProc = [p \in Procs |-> EfIdleProc]
    /\ MainIdle
    /\ RouterIdle /\ ListIdle /\ MsgIdle /\ UrlIdle

EfNoMicrotask == \A q \in Procs : efProc[q].pc \notin {"done", "settled"}

\* a variant that sends the request whatever the setting
EfStartedUnchecked(t) ==
    IF Truthy(efCache[DashKey(t)])
    THEN [EfIdleProc EXCEPT !.pc = "done", !.triple = t,
                            !.outcome = Resolved(efCache[DashKey(t)])]
    ELSE [EfIdleProc EXCEPT !.pc = "fetch", !.triple = t, !.dreq = 1]

\* get(service, namespace, method) run to the await of fetch(), whose first statement
\* reads the endpoint getter, or to its return when the cache has the descriptor
EfStarted(t) ==
    IF Truthy(efCache[DashKey(t)])
    THEN [EfIdleProc EXCEPT !.pc = "done", !.triple = t,
                            !.outcome = Resolved(efCache[DashKey(t)])]
    ELSE IF efEndpoint = "" /\ efSetting = ""
    THEN [EfIdleProc EXCEPT !.pc = "done", !.triple = t,
             !.outcome = Rejected(MsError("Missing endpoint setting 'discoveryHost'",
                                          "INVALID_DISCOVERY_HOST_SETTING", 0))]
    ELSE [EfIdleProc EXCEPT !.pc = "fetch", !.triple = t, !.dreq = 1]

\* the endpoint getter memoises the URL it builds from the setting
EfEndpointRead(t) ==
    IF EfStarted(t).pc = "fetch" /\ efEndpoint = "" THEN efSetting \o "api/endpoint"
    ELSE efEndpoint

\* EndpointFetcher.get(service, namespace, method) is invoked: it runs to the await of
\* fetch(), whose first statement reads the endpoint getter
EfGet(p, t) ==
    /\ efProc[p].pc = "idle"
    /\ \A q \in Procs : q < p => efProc[q].pc # "idle"
    /\ efProc' = [efProc EXCEPT ![p] = EfStarted(t)]
    /\ efEndpoint' = EfEndpointRead(t)
    /\ UNCHANGED <<efSetting, efCache>>

\* method.toUpperCase() in prepareData needs a method in the descriptor
HasMethod(d) == d.t = "object" /\ Truthy(GetField(d, "method"))

NoMethod == RawError("Cannot read properties of undefined (reading 'toUpperCase')")

\* MsCall.invoke once EndpointFetcher.get has settled, up to Invoker.apiCall; call() and
\* safeCall() await invoke and pass its rejection on
Invoked(me) ==
    IF me.outcome.t = "rejected" THEN [me EXCEPT !.pc = "settled", !.result = me.outcome]
    ELSE IF ~HasMethod(me.outcome.value)
    THEN [me EXCEPT !.pc = "settled", !.result = Rejected(NoMethod)]
    ELSE [me EXCEPT !.pc = "lambda", !.lreq = 1]

\* get() has its descriptor or its error: its caller goes on, get's own caller as it is
\* (kind "get"), MsCall with the rest of invoke
EfSettled(me) == IF me.kind = "get" THEN me ELSE Invoked(me)

\* axios.request settles: the rest of fetch(), then this.cache[key] = <its value> and
\* the return of get()
EfFetchAnswer(p, ans) ==
    /\ efProc[p].pc = "fetch"
    /\ EfNoMicrotask
    /\ LET r == FetchResult(efProc[p].triple, ans)
           key == DashKey(efProc[p].triple)
           me == [efProc[p] EXCEPT !.pc = "done", !.ans = ans]
       IN  IF r.t = "rejected"
           THEN /\ efProc' = [efProc EXCEPT ![p] = EfSettled([me EXCEPT !.outcome = r])]
                /\ UNCHANGED efCache
           ELSE /\ efCache' = [efCache EXCEPT ![key] = r.value]
                /\ efProc' = [efProc EXCEPT ![p] =
                       EfSettled([me EXCEPT !.outcome = Resolved(efCache'[key])])]
    /\ UNCHANGED <<efSetting, efEndpoint>>

\* the caller has the descriptor or the error
EfReturn(p) ==
    /\ efProc[p].pc = "done" /\ efProc[p].kind = "get"
    /\ efProc' = [efProc EXCEPT ![p] = EfIdleProc]
    /\ UNCHANGED <<efSetting, efEndpoint, efCache>>

\* the discoveryHost setting is configured
EfConfigure ==
    /\ efSetting = ""
    /\ efSetting' = DiscoveryHost
    /\ UNCHANGED <<efEndpoint, efCache, efProc>>

NextFetcher ==
    \/ \E p \in Procs, t \in Triples :
          EfGet(p, t) /\ UNCHANGED <<mainVars, routerVars, listVars, msgVars, urlVars>>
    \/ \E p \in Procs : \E ans \in FetchAnswers(efProc[p].triple) :
          EfFetchAnswer(p, ans) /\ UNCHANGED <<mainVars, routerVars, listVars, msgVars, urlVars>>
    \/ \E p \in Procs : EfReturn(p) /\ UNCHANGED <<mainVars, routerVars, listVars, msgVars, urlVars>>
    \/ EfConfigure /\ UNCHANGED <<mainVars, routerVars, listVars, msgVars, urlVars>>

SpecFetcher == InitFetcher /\ [][NextFetcher]_vars

---------------------------------------------------------------------------
(* MsCall: call() and safeCall() resolve the endpoint with                 *)
(* EndpointFetcher.get and invoke the lambda function of the service.      *)

\* what Invoker.apiCall can settle with; a lambda response has a statusCode and a body,
\* and headers only when the API sets some
LambdaAnswers ==
    {[kind |-> "resolve",
      response |-> [statusCode |-> 200, headers |-> Undefined,
                    body |-> Obj(<< <<"id", Str("foo-id")>> >>)]],
     [kind |-> "resolve",
      response |-> [statusCode |-> 400, headers |-> Undefined,
                    body |-> Obj(<< <<"message", Str("invalid filter price")>> >>)]],
     [kind |-> "resolve",
      response |-> [statusCode |-> 500, headers |-> JsonHeaders,
                    body |-> Obj(<< <<"message", Str("internal server error")>> >>)]],
     [kind |-> "reject", message |-> "Lambda invocation failed"]}

\* Invoker.apiCall settled: its response, or its error as it is
ApiCallResult(ans) ==
    IF ans.kind = "reject" THEN Rejected(RawError(ans.message)) ELSE Resolved(ans.response)

\* call(...) or safeCall(...) run through invoke and EndpointFetcher.get to the request
\* it waits for: that of discovery, or with a cached descriptor the invocation
MsStarted(kind, t, headers) ==
    LET me == [EfStarted(t) EXCEPT !.kind = kind, !.headers = headers]
    IN  IF me.pc = "done" THEN Invoked(me) ELSE me

InitMsCall == InitFetcher

MsCallStart(p, kind, t) ==
    /\ efProc[p].pc = "idle"
    /\ \A q \in Procs : q < p => efProc[q].pc # "idle"
    /\ efProc' = [efProc EXCEPT ![p] = MsStarted(kind, t, Undefined)]
    /\ efEndpoint' = EfEndpointRead(t)
    /\ UNCHANGED <<efSetting, efCache>>

\* Invoker.apiCall settles: the rest of call() or safeCall()
MsLambdaAnswer(p, ans) ==
    /\ efProc[p].pc = "lambda"
    /\ EfNoMicrotask
    /\ efProc' = [efProc EXCEPT ![p].pc = "settled", ![p].lAns = ans,
                                ![p].result = Outcome(efProc[p].kind, ApiCallResult(ans))]
    /\ UNCHANGED <<efSetting, efEndpoint, efCache>>

\* the caller has the response or the error
MsReturn(p) ==
    /\ efProc[p].pc = "settled"
    /\ p \notin DOMAIN lister
    /\ efProc' = [efProc EXCEPT ![p] = EfIdleProc]
    /\ UNCHANGED <<efSetting, efEndpoint, efCache>>

NextMsCall ==
    \/ \E p \in Procs, kind \in {"call", "safeCall"}, t \in Triples :
          MsCallStart(p, kind, t) /\ UNCHANGED <<mainVars, routerVars, listVars, msgVars, urlVars>>
    \/ \E p \in Procs : \E ans \in FetchAnswers(efProc[p].triple) :
          EfFetchAnswer(p, ans) /\ UNCHANGED <<mainVars, routerVars, listVars, msgVars, urlVars>>
    \/ \E p \in Procs, ans \in LambdaAnswers :
          MsLambdaAnswer(p, ans) /\ UNCHANGED <<mainVars, routerVars, listVars, msgVars, urlVars>>
    \/ \E p \in Procs : MsReturn(p) /\ UNCHANGED <<mainVars, routerVars, listVars, msgVars, urlVars>>
    \/ EfConfigure /\ UNCHANGED <<mainVars, routerVars, listVars, msgVars, urlVars>>

SpecMsCall == InitMsCall /\ [][NextMsCall]_vars

---------------------------------------------------------------------------
(* list() and safeList() of the Discovery-backed MicroServiceCall: one     *)
(* instance, whose field makeSafeCall every invocation reads and safeList  *)
(* writes.  Invocation l fetches its pages through the call slot l.        *)

Listers == DOMAIN lister

DEFAULT_PAGE_SIZE == 60

ListTriple == <<"sample-service", "sample-entity", "list">>

PageSizeArgs == {Undefined} \cup {Num(n) : n \in 1..MaxPageSize}

ListFilters == Obj(<< <<"status", Str("active")>> >>)

\* the arguments of list and safeList after service and namespace: none at all, or
\* requestData, endpointParameters and a pageSize
ListArgs ==
    {[requestData |-> IF ps = Undefined THEN Null ELSE ListFilters,
      endpointParameters |-> IF ps = Undefined THEN Undefined
                             ELSE Obj(<< <<"entity", Str("sample-entity")>> >>),
      pageSize |-> ps] : ps \in PageSizeArgs}

\* a variant that asks for the first page every time
PageHeadersFirstPage(page, pageSize) ==
    Obj(<< <<"x-janis-page", Num(1)>>, <<"x-janis-page-size", Num(pageSize)>>,
           <<"x-janis-totals", False>> >>)

\* the headers listIterate adds to the request of a page
PageHeaders(page, pageSize) ==
    Obj(<< <<"x-janis-page", Num(page)>>, <<"x-janis-page-size", Num(pageSize)>>,
           <<"x-janis-totals", False>> >>)

Min(a, b) == IF a < b THEN a ELSE b

\* the items page number page holds when the API serves its n items pageSize at a time
PageOf(n, page, pageSize) ==
    [i \in 1..(IF (page - 1) * pageSize >= n THEN 0
               ELSE Min(page * pageSize, n) - (page - 1) * pageSize)
        |-> Num((page - 1) * pageSize + i)]

\* what axios.request of a page can settle with
ListAnswers(headers) ==
    IF headers = Undefined THEN {}
    ELSE {[kind |-> "resolve", status |-> 200, statusText |-> Null,
           headers |-> Obj(<< <<"x-page", GetField(headers, "x-janis-page")>> >>),
           data |-> Arr(PageOf(backend, GetField(headers, "x-janis-page").n,
                               GetField(headers, "x-janis-page-size").n))],
          [kind |-> "resolve", status |-> 500, statusText |-> Null, headers |-> JsonHeaders,
           data |-> Obj(<< <<"message", Str("Internal error")>> >>)],
          [kind |-> "reject", message |-> "Some lib error"]}

LIdle ==
    [pc |-> "idle", op |-> "none", requestData |-> Undefined, endpointParameters |-> Undefined,
     pageSizeArg |-> Undefined, pageSize |-> 0, page |-> 0, sent |-> 0, items |-> <<>>,
     lastResponse |-> Undefined, pages |-> <<>>, result |-> Pending]

\* this.makeSafeCall ? 'safeCall' : 'call'
ListMethod(flag) == IF flag THEN "safeCall" ELSE "call"

\* this[method](service, namespace, 'list', requestData, headers, endpointParameters),
\* run to its first await
PageCall(flag, requestData, endpointParameters, page, pageSize) ==
    [StartedCall(ListMethod(flag), ListTriple, endpointParameters, PageHeaders(page, pageSize))
        EXCEPT !.data = requestData]

\* a variant that keeps the last page only
AccumulateLastOnly(items, body) == IF Truthy(body) THEN body.items ELSE items

\* items.push(...response.body) when response.body is truthy
Accumulate(items, body) == IF Truthy(body) THEN items \o body.items ELSE items

\* response.body.length
BodyLength(body) ==
    CASE body.t = "array"  -> Len(body.items)
      [] body.t = "string" -> Len(body.v)
      [] OTHER             -> -1

\* a variant that goes on while pages are not empty
ShouldContinueNonEmpty(body, pageSize) == BodyLength(body) > 0

\* response?.body.length === pageSize
ShouldContinue(body, pageSize) == BodyLength(body) = pageSize

\* the spread of a body that is not iterable throws
NotIterable == RawError("response.body is not iterable")

InitList ==
    /\ MainIdle
    /\ makeSafeCall = FALSE
    /\ lister = [l \in 1..NumListers |-> LIdle]
    /\ backend \in 0..MaxItems
    /\ RouterIdle /\ EfIdle /\ MsgIdle /\ UrlIdle

\* a variant that answers a failed page with the items gathered so far
PageRejectedPartial(me, o) ==
    [me EXCEPT !.pc = "returning",
               !.result = Resolved([headers |-> Undefined, statusCode |-> 200,
                                    statusMessage |-> Undefined, body |-> Arr(me.items)])]

\* the await of the page's call throws: nothing in listIterate or list catches it
PageRejected(me, o) == [me EXCEPT !.pc = "returning", !.result = o]

\* list(...) or safeList(...) is invoked: it runs into listIterate and to the first
\* await of the call for page 1
ListStart(l, op, args) ==
    /\ lister[l].pc = "idle" /\ proc[l].pc = "idle"
    /\ \A q \in Listers : q < l => lister[q].pc # "idle"
    /\ makeSafeCall' = IF op = "safeList" THEN TRUE ELSE makeSafeCall
    /\ LET pageSize == IF Truthy(args.pageSize) THEN args.pageSize.n ELSE DEFAULT_PAGE_SIZE
       IN  /\ lister' = [lister EXCEPT ![l] =
                  [LIdle EXCEPT !.pc = "page", !.op = op, !.requestData = args.requestData,
                                !.endpointParameters = args.endpointParameters,
                                !.pageSizeArg = args.pageSize,
                                !.pageSize = pageSize, !.page = 1]]
           /\ proc' = [proc EXCEPT ![l] =
                  PageCall(makeSafeCall', args.requestData, args.endpointParameters,
                           1, pageSize)]
    /\ UNCHANGED <<env, cache, secretValue, resolved, backend, session, apiKeyUser, userSet>>

\* the call of a page has settled: the rest of listIterate, and of the listIterate it
\* invokes for the next page up to the await of that call
ListContinue(l) ==
    /\ lister[l].pc = "page" /\ proc[l].pc = "done"
    /\ LET o == proc[l].outcome
           me == [lister[l] EXCEPT !.sent = lister[l].sent + proc[l].rreq]
       IN  IF o.t = "rejected"
           THEN /\ lister' = [lister EXCEPT ![l] = PageRejected(me, o)]
                /\ proc' = [proc EXCEPT ![l] = Idle]
           ELSE LET response == o.value
                    got == [me EXCEPT !.pages = Append(me.pages, response)]
                IN  IF makeSafeCall /\ response.statusCode >= 400
                    THEN /\ lister' = [lister EXCEPT ![l] =
                                [got EXCEPT !.pc = "returning", !.result = Resolved(response)]]
                         /\ proc' = [proc EXCEPT ![l] = Idle]
                    ELSE IF Truthy(response.body) /\ response.body.t # "array"
                    THEN /\ lister' = [lister EXCEPT ![l] =
                                [got EXCEPT !.pc = "returning", !.lastResponse = response,
                                            !.result = Rejected(NotIterable)]]
                         /\ proc' = [proc EXCEPT ![l] = Idle]
                    ELSE LET items == Accumulate(me.items, response.body)
                         IN  IF ShouldContinue(response.body, me.pageSize)
                             THEN /\ lister' = [lister EXCEPT ![l] =
                                         [got EXCEPT !.lastResponse = response, !.items = items,
                                                     !.page = me.page + 1]]
                                  /\ proc' = [proc EXCEPT ![l] =
                                         PageCall(makeSafeCall, me.requestData,
                                                  me.endpointParameters,
                                                  me.page + 1, me.pageSize)]
                             ELSE /\ lister' = [lister EXCEPT ![l] =
                                         [got EXCEPT !.pc = "returning",
                                                     !.lastResponse = response, !.items = items,
                                                     !.result = Resolved([response EXCEPT
                                                                    !.body = Arr(items)])]]
                                  /\ proc' = [proc EXCEPT ![l] = Idle]
    /\ UNCHANGED <<env, cache, secretValue, resolved, makeSafeCall, backend, session, apiKeyUser, userSet>>

\* list() has settled: safeList clears the flag when list() resolved, and the caller has
\* its result
ListReturn(l) ==
    /\ lister[l].pc = "returning"
    /\ makeSafeCall' = IF lister[l].op = "safeList" /\ lister[l].result.t = "resolved"
                       THEN FALSE ELSE makeSafeCall
    /\ lister' = [lister EXCEPT ![l] = LIdle]
    /\ UNCHANGED <<mainVars, backend>>

\* no continuation of list() is waiting to run
ListQuiet == \A l \in Listers : lister[l].pc # "returning"

NextList ==
    \/ \E l \in Listers, op \in {"list", "safeList"}, args \in ListArgs :
          ListStart(l, op, args) /\ UNCHANGED <<routerVars, efVars, msgVars, urlVars>>
    \/ \E l \in Listers : ListContinue(l) /\ UNCHANGED <<routerVars, efVars, msgVars, urlVars>>
    \/ \E l \in Listers : ListReturn(l) /\ UNCHANGED <<routerVars, efVars, msgVars, urlVars>>
    \/ \E p \in Procs : \E ans \in DiscoveryAnswers(proc[p].triple) :
          ListQuiet /\ DiscoveryAnswer(p, ans)
             /\ UNCHANGED <<routerVars, efVars, listVars, msgVars, urlVars>>
    \/ \E p \in Procs : SecretStart(p) /\ UNCHANGED <<routerVars, efVars, listVars, msgVars, urlVars>>
    \/ \E p \in Procs : SecretThrows(p) /\ UNCHANGED <<routerVars, efVars, listVars, msgVars, urlVars>>
    \/ \E p \in Procs, ans \in SecretAnswers :
          ListQuiet /\ SecretAnswer(p, ans)
             /\ UNCHANGED <<routerVars, efVars, listVars, msgVars, urlVars>>
    \/ \E p \in Procs : RequestSend(p) /\ UNCHANGED <<routerVars, efVars, listVars, msgVars, urlVars>>
    \/ \E p \in Procs : \E ans \in ListAnswers(proc[p].headers) :
          ListQuiet /\ RemoteAnswer(p, ans)
             /\ UNCHANGED <<routerVars, efVars, listVars, msgVars, urlVars>>

SpecList == InitList /\ [][NextList]_vars

\* two invocations of list() or safeList() can be running on the one instance at a time
InitListPair ==
    /\ MainIdle
    /\ makeSafeCall = FALSE
    /\ lister = <<LIdle, LIdle>>
    /\ backend = MaxItems
    /\ RouterIdle /\ EfIdle /\ MsgIdle /\ UrlIdle

SpecListPair == InitListPair /\ [][NextList]_vars

---------------------------------------------------------------------------
(* MsCall.list and MsCall.safeList: the pages are asked for until the      *)
(* items gathered reach the total the API reports in x-janis-total.        *)

DEFAULT_LIST_PAGE_SIZE == 1000

\* the headers list() sends with the request of a page
MsPageHeaders(page, pageSize) ==
    Obj(<< <<"x-janis-page", Num(page)>>, <<"x-janis-page-size", Num(pageSize)>> >>)

TotalHeaders(n) == Obj(<< <<"x-janis-total", Num(n)>> >>)

\* what Invoker.apiCall can settle with for a page
PageLambdaAnswers(headers) ==
    IF headers = Undefined THEN {}
    ELSE {[kind |-> "resolve",
           response |-> [statusCode |-> 200, headers |-> TotalHeaders(backend),
                         body |-> Arr(PageOf(backend, GetField(headers, "x-janis-page").n,
                                             GetField(headers, "x-janis-page-size").n))]],
          [kind |-> "resolve",
           response |-> [statusCode |-> 400, headers |-> Undefined,
                         body |-> Obj(<< <<"message", Str("invalid filter price")>> >>)]],
          [kind |-> "resolve",
           response |-> [statusCode |-> 500, headers |-> JsonHeaders,
                         body |-> Obj(<< <<"message", Str("internal server error")>> >>)]],
          [kind |-> "resolve",
           response |-> [statusCode |-> 503, headers |-> TotalHeaders(0), body |-> Arr(<<>>)]],
          [kind |-> "reject", message |-> "Lambda invocation failed"]}

\* the two list() of MsCall in the repository: that of part_008 returns the response of
\* a failing page in safe mode (guarded), that of lib/ms-call.js has no such statement
MsCallVersions == {[guarded |-> TRUE], [guarded |-> FALSE]}

MsLIdle ==
    [pc |-> "idle", op |-> "none", guarded |-> FALSE, useSafeMode |-> FALSE, pageSize |-> 0,
     page |-> 0, invoked |-> 0, body |-> <<>>, received |-> <<>>, result |-> Pending]

\* useSafeMode ? 'safeCall' : 'call'
MsCallMethod(useSafeMode) == IF useSafeMode THEN "safeCall" ELSE "call"

NoHeaders == RawError("Cannot read properties of undefined (reading 'x-janis-total')")

\* a variant that never asks for a second page
MoreItemsNever(headers, n) == FALSE

\* totals - body.length > 0, where totals is response.headers['x-janis-total']
MoreItems(headers, n) ==
    LET totals == GetField(headers, "x-janis-total")
    IN  totals.t = "number" /\ totals.n - n > 0

\* the body of the do-while after the await, for a response the loop does not return at
\* once: the lister it leaves, returning or with the next page to ask for
MsListAfterPage(me, response) ==
    IF response.headers = Undefined
    THEN [me EXCEPT !.pc = "returning", !.page = me.page + 1, !.result = Rejected(NoHeaders)]
    ELSE IF response.body.t # "array"
    THEN [me EXCEPT !.pc = "returning", !.page = me.page + 1,
                    !.result = Rejected(NotIterable)]
    ELSE LET body == me.body \o response.body.items
         IN  IF MoreItems(response.headers, Len(body))
             THEN [me EXCEPT !.page = me.page + 1, !.body = body]
             ELSE [me EXCEPT !.pc = "returning", !.page = me.page + 1, !.body = body,
                             !.result = Resolved([response EXCEPT !.body = Arr(body)])]

InitMsList ==
    /\ efSetting = DiscoveryHost
    /\ efEndpoint = ""
    /\ efCache = [k \in DashKeys |-> Undefined]
    /\ efProc = [p \in Procs |-> EfIdleProc]
    /\ makeSafeCall = FALSE
    /\ lister = [l \in 1..NumListers |-> MsLIdle]
    /\ backend \in 0..MaxItems
    /\ MainIdle
    /\ RouterIdle /\ MsgIdle /\ UrlIdle

\* list(...) or safeList(...) of an MsCall is invoked: it runs to the first await of
\* the call of page 1
MsListStart(l, op, version, pageSizeArg) ==
    /\ lister[l].pc = "idle" /\ efProc[l].pc = "idle"
    /\ \A q \in Listers : q < l => lister[q].pc # "idle"
    /\ LET pageSize == IF Truthy(pageSizeArg) THEN pageSizeArg.n ELSE DEFAULT_LIST_PAGE_SIZE
           useSafeMode == op = "safeList"
       IN  /\ lister' = [lister EXCEPT ![l] =
                  [MsLIdle EXCEPT !.pc = "page", !.op = op, !.guarded = version.guarded,
                                  !.useSafeMode = useSafeMode, !.pageSize = pageSize,
                                  !.page = 1]]
           /\ efProc' = [efProc EXCEPT ![l] =
                  MsStarted(MsCallMethod(useSafeMode), ListTriple, MsPageHeaders(1, pageSize))]
    /\ efEndpoint' = EfEndpointRead(ListTriple)
    /\ UNCHANGED <<efSetting, efCache, makeSafeCall, backend>>

\* the call of a page has settled: the rest of the loop body, and the start of the call
\* of the next page when the loop goes on
MsListContinueFrom(l, loop) ==
    /\ lister[l].pc = "page" /\ efProc[l].pc = "settled"
    /\ LET o == efProc[l].result
           me == [loop EXCEPT !.invoked = loop.invoked + efProc[l].lreq]
       IN  IF o.t = "rejected"
           THEN /\ lister' = [lister EXCEPT ![l] =
                       [me EXCEPT !.pc = "returning", !.result = o]]
                /\ efProc' = [efProc EXCEPT ![l] = EfIdleProc]
                /\ UNCHANGED efEndpoint
           ELSE LET response == o.value
                    got == [me EXCEPT !.received = Append(me.received, response)]
                    after == IF got.guarded /\ got.useSafeMode /\ response.statusCode >= 400
                             THEN [got EXCEPT !.pc = "returning",
                                              !.result = Resolved(response)]
                             ELSE MsListAfterPage(got, response)
                IN  /\ lister' = [lister EXCEPT ![l] = after]
                    /\ IF after.pc = "page"
                       THEN /\ efProc' = [efProc EXCEPT ![l] =
                                   MsStarted(MsCallMethod(after.useSafeMode), ListTriple,
                                             MsPageHeaders(after.page, after.pageSize))]
                            /\ efEndpoint' = EfEndpointRead(ListTriple)
                       ELSE /\ efProc' = [efProc EXCEPT ![l] = EfIdleProc]
                            /\ UNCHANGED efEndpoint
    /\ UNCHANGED <<efSetting, efCache, makeSafeCall, backend>>

MsListContinue(l) == MsListContinueFrom(l, lister[l])

\* the caller of list() or safeList() has its result
MsListReturn(l) ==
    /\ lister[l].pc = "returning"
    /\ lister' = [lister EXCEPT ![l] = MsLIdle]
    /\ UNCHANGED <<efVars, makeSafeCall, backend>>

NextMsList ==
    \/ \E l \in Listers, op \in {"list", "safeList"}, version \in MsCallVersions,
          pageSizeArg \in PageSizeArgs :
          MsListStart(l, op, version, pageSizeArg)
             /\ UNCHANGED <<mainVars, routerVars, msgVars, urlVars>>
    \/ \E l \in Listers : MsListContinue(l) /\ UNCHANGED <<mainVars, routerVars, msgVars, urlVars>>
    \/ \E l \in Listers : MsListReturn(l) /\ UNCHANGED <<mainVars, routerVars, msgVars, urlVars>>
    \/ \E p \in Procs : \E ans \in FetchAnswers(efProc[p].triple) :
          ListQuiet /\ EfFetchAnswer(p, ans)
             /\ UNCHANGED <<mainVars, routerVars, listVars, msgVars, urlVars>>
    \/ \E p \in Procs : \E ans \in PageLambdaAnswers(efProc[p].headers) :
          ListQuiet /\ MsLambdaAnswer(p, ans)
             /\ UNCHANGED <<mainVars, routerVars, listVars, msgVars, urlVars>>

SpecMsList == InitMsList /\ [][NextMsList]_vars

\* one list at a time
InitMsListOne ==
    /\ efSetting = DiscoveryHost
    /\ efEndpoint = ""
    /\ efCache = [k \in DashKeys |-> Undefined]
    /\ efProc = [p \in Procs |-> EfIdleProc]
    /\ makeSafeCall = FALSE
    /\ lister = <<MsLIdle>>
    /\ backend \in 0..MaxItems
    /\ MainIdle
    /\ RouterIdle /\ MsgIdle /\ UrlIdle

SpecMsListOne == InitMsListOne /\ [][NextMsList]_vars

---------------------------------------------------------------------------
(* The lists that follow the total count, served by a list API that        *)
(* reports any total and holds any number of items in a page.              *)

\* the x-janis-total a page can report, and the number of items it can hold
AnyTotals == {0, 1, MaxItems}
AnySizes == {0, 1, MaxPageSize}

\* what Invoker.apiCall can settle with for a page, whatever the page asked for
AnyPageLambdaAnswers(headers) ==
    IF headers = Undefined THEN {}
    ELSE {[kind |-> "resolve",
           response |-> [statusCode |-> 200, headers |-> TotalHeaders(t),
                         body |-> Arr([i \in 1..k |-> Num(i)])]] :
             t \in AnyTotals, k \in AnySizes}
         \cup {[kind |-> "reject", message |-> "Lambda invocation failed"]}

\* the page counter of the model counts up to here: a list whose every page holds an
\* item has returned before, the totals being MaxItems at most
PageCap == MaxItems + 1

RECURSIVE DropEmptyPage(_)
\* the pages received without the first of them that held no item
DropEmptyPage(pages) ==
    IF pages = <<>> THEN <<>>
    ELSE IF Len(pages[1].body.items) = 0 THEN Tail(pages)
    ELSE <<pages[1]>> \o DropEmptyPage(Tail(pages))

\* the loop goes on for as long as the answers keep it going, while the model counts the
\* pages beyond PageCap as one: the page counter, the count of invocations and the record
\* of the pages received are taken one page back before the loop body runs
PagesCounted(loop) ==
    IF loop.page > PageCap
    THEN [loop EXCEPT !.page = @ - 1, !.invoked = @ - 1, !.received = DropEmptyPage(@)]
    ELSE loop

MsListContinueAny(l) == MsListContinueFrom(l, PagesCounted(lister[l]))

InitMsListAny ==
    /\ efSetting = DiscoveryHost
    /\ efEndpoint = ""
    /\ efCache = [k \in DashKeys |-> Undefined]
    /\ efProc = [p \in Procs |-> EfIdleProc]
    /\ makeSafeCall = FALSE
    /\ lister = <<MsLIdle>>
    /\ backend = 0
    /\ MainIdle
    /\ RouterIdle /\ MsgIdle /\ UrlIdle

NextMsListAny ==
    \/ \E l \in Listers, op \in {"list", "safeList"}, version \in MsCallVersions,
          pageSizeArg \in {Undefined, Num(1)} :
          MsListStart(l, op, version, pageSizeArg)
             /\ UNCHANGED <<mainVars, routerVars, msgVars, urlVars>>
    \/ \E l \in Listers : MsListContinueAny(l) /\ UNCHANGED <<mainVars, routerVars, msgVars, urlVars>>
    \/ \E l \in Listers : MsListReturn(l) /\ UNCHANGED <<mainVars, routerVars, msgVars, urlVars>>
    \/ \E p \in Procs :
          ListQuiet /\ EfFetchAnswer(p, [kind |-> "resolve", status |-> 200,
                                         data |-> CompleteEndpoint(efProc[p].triple)])
             /\ UNCHANGED <<mainVars, routerVars, listVars, msgVars, urlVars>>
    \/ \E p \in Procs : \E ans \in AnyPageLambdaAnswers(efProc[p].headers) :
          /\ p \in Listers
          /\ ListQuiet /\ MsLambdaAnswer(p, ans)
          /\ UNCHANGED <<mainVars, routerVars, listVars, msgVars, urlVars>>

SpecMsListAny == InitMsListAny /\ [][NextMsListAny]_vars

\* every request is answered in the end and every continuation runs
SpecMsListAnyFair == SpecMsListAny /\ WF_vars(NextMsListAny)

---------------------------------------------------------------------------
(* The error message of call(), as a function of the response.             *)

MsgStatuses == {200, 399, 400, 404, 500, 504}

MsgBodies ==
    {Undefined, Null, Str(""), Str("oops"), Num(0), Num(5),
     Obj(<<>>), Arr(<<>>),
     Obj(<< <<"message", Str("Something failed")>> >>),
     Obj(<< <<"message", Str("")>> >>),
     Obj(<< <<"message", Num(7)>> >>),
     Obj(<< <<"foo", Str("bar")>> >>),
     Obj(<< <<"foo", Str("bar")>>, <<"message", Str("Something failed")>> >>),
     Obj(<< <<"code", Num(13)>>, <<"foo", Str("bar")>> >>),
     Arr(<< Str("a") >>),
     Arr(<< Num(1), Num(2) >>)}

InitMessage ==
    /\ msgIn \in [kind : {"resolve"}, status : MsgStatuses, statusText : {Null},
                  headers : {JsonHeaders}, data : MsgBodies]
    /\ msgOut = Undefined
    /\ retryIn = Undefined /\ retryOut = Undefined
    /\ MainIdle /\ RouterIdle /\ EfIdle /\ ListIdle /\ UrlIdle

\* the tail of call() on the response _makeRequest has returned
MessageCompute ==
    /\ msgOut = Undefined
    /\ msgOut' = CallOutcome(Normalize(msgIn))
    /\ UNCHANGED <<msgIn, retryIn, retryOut>>

NextMessage ==
    MessageCompute /\ UNCHANGED <<mainVars, routerVars, efVars, listVars, urlVars>>

SpecMessage == InitMessage /\ [][NextMessage]_vars

---------------------------------------------------------------------------
(* shouldRetry, as a function of the outcome it is given.                  *)

NoRetryErrorMessages ==
    {": Argument passed in must be a single String of 12 bytes or a string of 24 hex characters",
     ": Invalid client"}

\* the position of the first parenthesis of s from position i on, 0 when there is none
RECURSIVE FirstParen(_, _)
FirstParen(s, i) ==
    IF i > Len(s) THEN 0
    ELSE IF SubSeq(s, i, i) \in {"(", ")"} THEN i
    ELSE FirstParen(s, i + 1)

\* s.split(/[()]/g)
RECURSIVE SplitParens(_)
SplitParens(s) ==
    LET i == FirstParen(s, 1)
    IN  IF i = 0 THEN <<s>>
        ELSE <<SubSeq(s, 1, i - 1)>> \o SplitParens(SubSeq(s, i + 1, Len(s)))

\* const [, , message] = error.message.split(/[()]/g)
GetMessageFromError(error) ==
    LET parts == SplitParens(error.message)
    IN  IF Len(parts) >= 3 THEN Str(parts[3]) ELSE Undefined

\* (response.body && response.body.message) ? `: ${response.body.message}` : ''
GetMessageFromResponse(response) ==
    IF Truthy(response.body) /\ Truthy(GetField(response.body, "message"))
    THEN Str(": " \o ToStr(GetField(response.body, "message")))
    ELSE Str("")

\* response instanceof MicroServiceCallError
IsMsError(outcome) == "name" \in DOMAIN outcome /\ outcome.name = "MicroServiceCallError"

\* shouldRetry(response = {}); statusCode 0 stands for a statusCode that is not there
ShouldRetry(response) ==
    IF response.statusCode = 0 THEN TRUE
    ELSE LET message == IF IsMsError(response) THEN GetMessageFromError(response)
                        ELSE GetMessageFromResponse(response)
         IN  response.statusCode >= 500
                /\ ~(message.t = "string" /\ message.v \in NoRetryErrorMessages)

RetryStatuses == {200, 404, 499, 500, 504}

RetryBodies ==
    {Undefined, Str(""), Str("Invalid client"), Arr(<<>>),
     Obj(<< <<"message", Str("Timeout")>> >>),
     Obj(<< <<"message", Str("Invalid client")>> >>),
     Obj(<< <<"message", Str("Argument passed in must be a single String of 12 bytes or a string of 24 hex characters")>> >>),
     Obj(<< <<"message", Str("Invalid client (unknown)")>> >>),
     Obj(<< <<"message", Str("Invalid client(unknown)")>> >>),
     Obj(<< <<"message", Num(7)>> >>),
     Obj(<< <<"foo", Str("bar")>> >>)}

\* the responses of a service
RetryResponses ==
    {Normalize([status |-> st, statusText |-> Null, headers |-> JsonHeaders, data |-> b]) :
        st \in RetryStatuses, b \in RetryBodies}

\* the outcomes shouldRetry is given: a response (of safeCall), the error call() throws for
\* it, a failure without statusCode, or nothing; from is the response behind the outcome
RetryInputs ==
    {[form |-> "response", from |-> r, outcome |-> r] : r \in RetryResponses}
    \cup {[form |-> "error", from |-> r, outcome |-> CallOutcome(r).error] :
             r \in {r \in RetryResponses : r.statusCode >= 400}}
    \cup {[form |-> "none", from |-> Undefined, outcome |-> o] :
             o \in {[statusCode |-> 0, body |-> Undefined],
                     [statusCode |-> 0, body |-> Arr(<<>>)],
                     RawError("TypeError"),
                     MsError("Request Lib Fails", "REQUEST_LIB_ERROR", 0),
                     MsError("Missing endpoint setting 'discoveryHost'",
                             "INVALID_DISCOVERY_HOST_SETTING", 0),
                     MsError("Endpoint not found: sample-service - sample-entity - list",
                             "ENDPOINT_NOT_FOUND", 0),
                     MsError("ECONNREFUSED", "ENDPOINT_REQUEST_FAILED", 0)}}

InitRetry ==
    /\ retryIn \in RetryInputs
    /\ retryOut = Undefined
    /\ msgIn = Undefined /\ msgOut = Undefined
    /\ MainIdle /\ RouterIdle /\ EfIdle /\ ListIdle /\ UrlIdle

RetryCompute ==
    /\ retryOut = Undefined
    /\ retryOut' = [t |-> "boolean", b |-> ShouldRetry(retryIn.outcome)]
    /\ UNCHANGED <<msgIn, msgOut, retryIn>>

NextRetry ==
    RetryCompute /\ UNCHANGED <<mainVars, routerVars, efVars, listVars, urlVars>>

SpecRetry == InitRetry /\ [][NextRetry]_vars

---------------------------------------------------------------------------
(* _getUrlWithEndpointParameters, as a function of its arguments.          *)

UrlTokens == {"/a/", "{x}", "{y}", "{z}"}

RECURSIVE Templates(_)
\* the endpoints of at most n tokens
Templates(n) ==
    IF n = 0 THEN {<<>>}
    ELSE Templates(n - 1) \cup
         {Append(e, tok) : e \in {e \in Templates(n - 1) : Len(e) = n - 1}, tok \in UrlTokens}

AlarmsTemplate == <<"/alarms/", "{alarmName}", "/state/", "{alarmState}">>

UrlParams ==
    {Undefined, Null, Obj(<<>>),
     Obj(<< <<"x", Str("foo")>> >>),
     Obj(<< <<"x", Str("foo")>>, <<"y", Str("ok")>> >>),
     Obj(<< <<"y", Str("ok")>>, <<"x", Str("foo")>> >>),
     Obj(<< <<"x", Num(17)>> >>),
     Obj(<< <<"x", Str("{y}")>>, <<"y", Str("ok")>> >>),
     Obj(<< <<"alarmName", Str("foo")>>, <<"alarmState", Str("ok")>> >>)}

InitUrl ==
    /\ urlIn \in [endpoint : (Templates(MaxTokens) \ {<<>>}) \cup {AlarmsTemplate},
                  endpointParameters : UrlParams]
    /\ urlOut = Undefined
    /\ MainIdle /\ RouterIdle /\ EfIdle /\ ListIdle /\ MsgIdle

UrlCompute ==
    /\ urlOut = Undefined
    /\ urlOut' = Arr(GetUrlWithEndpointParameters(urlIn.endpoint, urlIn.endpointParameters))
    /\ UNCHANGED urlIn

NextUrl ==
    UrlCompute /\ UNCHANGED <<mainVars, routerVars, efVars, listVars, msgVars>>

SpecUrl == InitUrl /\ [][NextUrl]_vars

---------------------------------------------------------------------------
(* _getUrlWithEndpointParameters of the versions with the verb helpers     *)
(* (get, post, put, patch, delete), called by _makeRequest with the        *)
(* endpoint the router gave and the endpointParameters of the caller.      *)

RECURSIVE ReduceOnEndpoint(_, _, _)
\* Object.keys(endpointParameters).reduce((acum, endpointParam) =>
\*     endpoint.replace(...), endpoint): every step substitutes into the endpoint it was
\* given at first and drops the accumulator
ReduceOnEndpoint(entries, endpoint, acum) ==
    IF entries = <<>> THEN acum
    ELSE ReduceOnEndpoint(Tail(entries), endpoint,
                          ReplaceFirst(endpoint, Placeholder(entries[1][1]),
                                       ToStr(entries[1][2])))

\* _makeRequest(..., endpointParameters = {}): the default of a missing argument
DefaultParameters(endpointParameters) ==
    IF endpointParameters = Undefined THEN Obj(<<>>) ELSE endpointParameters

\* what _makeRequest gets for the url: Object.keys(null) throws a TypeError, which its
\* catch wraps
UrlOrThrown(version, endpointParameters, tokens) ==
    IF endpointParameters = Null
    THEN [t |-> "thrown", version |-> version,
          error |-> MsError("Cannot convert undefined or null to object",
                            "REQUEST_LIB_ERROR", 0)]
    ELSE [t |-> "array", version |-> version, items |-> tokens]

\* lib/microservice-call.js, both classes of the file
LibMakeRequestUrl ==
    /\ urlOut = Undefined
    /\ LET endpointParameters == DefaultParameters(urlIn.endpointParameters)
       IN  urlOut' = UrlOrThrown("lib", endpointParameters,
                        IF endpointParameters = Null THEN <<>>
                        ELSE ReduceOnEndpoint(endpointParameters.fields, urlIn.endpoint,
                                              urlIn.endpoint))
    /\ UNCHANGED urlIn

\* the version of 3.0.0, which reduces on the accumulator
FixedMakeRequestUrl ==
    /\ urlOut = Undefined
    /\ LET endpointParameters == DefaultParameters(urlIn.endpointParameters)
       IN  urlOut' = UrlOrThrown("fixed", endpointParameters,
                        IF endpointParameters = Null THEN <<>>
                        ELSE ReduceParams(endpointParameters.fields, urlIn.endpoint))
    /\ UNCHANGED urlIn

NextVerbUrl ==
    /\ \/ LibMakeRequestUrl
       \/ FixedMakeRequestUrl
    /\ UNCHANGED <<mainVars, routerVars, efVars, listVars, msgVars>>

SpecVerbUrl == InitUrl /\ [][NextVerbUrl]_vars

---------------------------------------------------------------------------
(* Properties of call() and safeCall().                                    *)

\* what the environment did to a call, in the words of the error taxonomy
ResolutionFailed(ans) ==
    \/ ans.kind = "reject"
    \/ /\ ans.kind = "resolve"
       /\ \/ ans.payload.errorMessage # ""
          \/ ans.functionError # ""
          \/ ans.payload.baseUrl = <<>>
          \/ ans.payload.path = <<>>
          \/ ans.payload.method = ""

SecretFailed(ans) ==
    \/ ans.kind \in {"throw", "reject"}
    \/ ans.kind = "resolve" /\ GetField(ans.value, "apiSecret") = Undefined

SameResponse(value, ans) ==
    /\ value.statusCode = ans.status
    /\ value.statusMessage = ans.statusText
    /\ value.headers = ans.headers
    /\ value.body = ans.data

\* C1 as claimed: once a lookup of a triple has succeeded, every call() or safeCall()
\* started for that triple sends no discovery request and exactly one request to the
\* remote service
C1_StepAsClaimed ==
    \A p \in Procs :
        /\ (proc[p].pc = "idle" /\ proc'[p].pc # "idle" /\ proc'[p].triple \in resolved)
              => proc'[p].dreq = 0
        /\ (proc[p].pc # "idle" /\ proc'[p].pc # "idle") => proc'[p].dreq = proc[p].dreq
        /\ (proc[p].pc # "done" /\ proc'[p].pc = "done" /\ proc'[p].dreq = 0)
              => proc'[p].rreq = 1

C1_EveryCachedCallSendsOne == [][C1_StepAsClaimed]_vars

\* C1 amended: once a lookup of a triple has succeeded, a call() or safeCall() started for
\* that triple sends no discovery request, during its whole life and whatever other calls
\* are in flight, and an endpoint served from the cache still leads to exactly one
\* request to the remote service, or to none when the call rejects with
\* JANIS_SECRET_MISSING before the request is sent
C1_Step ==
    \A p \in Procs :
        /\ (proc[p].pc = "idle" /\ proc'[p].pc # "idle" /\ proc'[p].triple \in resolved)
              => proc'[p].dreq = 0
        /\ (proc[p].pc # "idle" /\ proc'[p].pc # "idle") => proc'[p].dreq = proc[p].dreq
        /\ (proc[p].pc # "done" /\ proc'[p].pc = "done" /\ proc'[p].dreq = 0)
              => proc'[p].rreq = (IF proc'[p].outcome = Rejected(SecretMissing) THEN 0 ELSE 1)

C1_CachedEndpointNoDiscovery == [][C1_Step]_vars

\* two calls at once for a triple resolved earlier, both past the cache and on the wire
C1_Witness ==
    /\ \A p \in {1, 2} : proc[p].pc = "request" /\ proc[p].dreq = 0 /\ proc[p].rreq = 1
    /\ proc[1].triple = proc[2].triple
    /\ proc[1].triple \in resolved
    /\ proc[1].kind = "call" /\ proc[2].kind = "safeCall"

\* C2: call() returns the normalized response of a completed exchange with statusCode < 400
\* as it is, and for statusCode >= 400 rejects with MICROSERVICE_FAILED and that statusCode,
\* after exactly one remote request
C2_CallOutcome ==
    \A p \in Procs :
        (proc[p].pc = "done" /\ proc[p].kind = "call" /\ proc[p].rAns.kind = "resolve") =>
            /\ proc[p].rreq = 1
            /\ proc[p].rAns.status < 400 =>
                  /\ proc[p].outcome.t = "resolved"
                  /\ SameResponse(proc[p].outcome.value, proc[p].rAns)
            /\ proc[p].rAns.status >= 400 =>
                  /\ proc[p].outcome.t = "rejected"
                  /\ proc[p].outcome.error.name = "MicroServiceCallError"
                  /\ proc[p].outcome.error.code = "MICROSERVICE_FAILED"
                  /\ proc[p].outcome.error.statusCode = proc[p].rAns.status

C2_Witness ==
    \E p \in Procs :
        /\ proc[p].pc = "done" /\ proc[p].kind = "call"
        /\ proc[p].rAns.kind = "resolve" /\ proc[p].rAns.status = 400
        /\ proc[p].outcome.t = "rejected" /\ proc[p].rreq = 1

\* C3: safeCall() resolves with the normalized response of every completed exchange,
\* whatever its statusCode, and rejects only when the resolution, the secret lookup or
\* the transport failed
C3_SafeCallOutcome ==
    \A p \in Procs :
        (proc[p].pc = "done" /\ proc[p].kind = "safeCall") =>
            /\ proc[p].rAns.kind = "resolve" =>
                  /\ proc[p].outcome.t = "resolved"
                  /\ SameResponse(proc[p].outcome.value, proc[p].rAns)
            /\ proc[p].outcome.t = "rejected" =>
                  \/ ResolutionFailed(proc[p].dAns)
                  \/ SecretFailed(proc[p].sAns)
                  \/ proc[p].rAns.kind = "reject"

C3_Witness ==
    \E p \in Procs :
        /\ proc[p].pc = "done" /\ proc[p].kind = "safeCall"
        /\ proc[p].rAns.kind = "resolve" /\ proc[p].rAns.status = 504
        /\ proc[p].rAns.data = Str("")
        /\ proc[p].outcome.t = "resolved"

\* C6: a transport failure makes call() and safeCall() reject with REQUEST_LIB_ERROR and
\* the library's message, never MICROSERVICE_FAILED; a completed exchange never gives
\* REQUEST_LIB_ERROR
C6_TransportFailure ==
    \A p \in Procs :
        proc[p].pc = "done" =>
            /\ proc[p].rAns.kind = "reject" =>
                  /\ proc[p].outcome.t = "rejected"
                  /\ proc[p].outcome.error.name = "MicroServiceCallError"
                  /\ proc[p].outcome.error.code = "REQUEST_LIB_ERROR"
                  /\ proc[p].outcome.error.message = proc[p].rAns.message
            /\ proc[p].rAns.kind = "resolve" =>
                  ~(proc[p].outcome.t = "rejected"
                    /\ proc[p].outcome.error.code = "REQUEST_LIB_ERROR")

C6_Witness ==
    \E p \in Procs :
        /\ proc[p].pc = "done" /\ proc[p].kind = "safeCall"
        /\ proc[p].rAns.kind = "reject"
        /\ proc[p].outcome.t = "rejected"
        /\ proc[p].outcome.error.code = "REQUEST_LIB_ERROR"

---------------------------------------------------------------------------
(* Properties of the endpoint caches.                                      *)

\* a descriptor MsCall.invoke can use: it has a path and a method
EfComplete(data) ==
    /\ Truthy(GetField(data, "path"))
    /\ Truthy(GetField(data, "method"))

EfLookupFailed(ans) ==
    \/ ans.kind = "reject"
    \/ ans.kind = "resolve" /\ (ans.status >= 400 \/ ~EfComplete(ans.data))

\* C4: a lookup of EndpointFetcher.get that fails (error status, transport failure,
\* incomplete descriptor) leaves the cache as it was, and only complete descriptors of
\* successful resolutions are ever stored
C4_Step ==
    /\ \A p \in Procs :
          (efProc[p].pc = "fetch" /\ efProc'[p].pc = "done" /\ EfLookupFailed(efProc'[p].ans))
             => efCache' = efCache
    /\ \A k \in DashKeys : efCache'[k] # Undefined => EfComplete(efCache'[k])

C4_FailedLookupNotCached == [][C4_Step]_vars

\* the same statement for Discovery.getEndpoint (lib/discovery.js), which does hold
C4_DiscoveryStep ==
    /\ \A p \in Procs :
          (proc[p].pc = "discovery" /\ proc'[p].pc = "done" /\ ResolutionFailed(proc'[p].dAns))
             => cache' = cache
    /\ \A p \in Procs :
          (proc[p].pc = "discovery" /\ proc'[p].pc # "discovery")
             => (ResolutionFailed(proc'[p].dAns) <=> proc'[p].pc = "done")
    /\ \A t \in Triples :
          cache'[CacheKey(t)] # NoDesc =>
             cache'[CacheKey(t)] = [endpoint |-> Registry(t).baseUrl \o Registry(t).path,
                                    httpMethod |-> Registry(t).method]

C4_DiscoveryFailedLookupNotCached == [][C4_DiscoveryStep]_vars

\* C5: the static cache of the router-fetcher-backed MicroServiceCall never holds a
\* failed lookup
C5_NoFailedLookupCached ==
    \A k \in DashKeys : rcache[k] # 0 => promises[rcache[k]].state # "rejected"

---------------------------------------------------------------------------
(* Properties of the error message and of the path substitution.           *)

MessagePrefix(status) == "Microservice failed (" \o NumStr(status) \o "): "

HasField(x, key) == x.t = "object" /\ \E i \in 1..Len(x.fields) : x.fields[i][1] = key

\* the text the claim gives for a body
C7_ClaimedText(body) ==
    IF HasField(body, "message") THEN ToStr(GetField(body, "message"))
    ELSE IF (body.t = "object" /\ body.fields # <<>>) \/ (body.t = "array" /\ body.items # <<>>)
    THEN JsonStringify(body)
    ELSE "No response body"

\* C7 as claimed: the message is 'Microservice failed (s): m' with m = body.message for an
\* object with that field, else the JSON text of a non-empty object or array, else
\* 'No response body' (missing body, empty string, empty object or array)
C7_MessageAsClaimed ==
    msgOut # Undefined =>
        /\ msgOut.t = "rejected" <=> msgIn.status >= 400
        /\ msgOut.t = "rejected" =>
              msgOut.error.message = MessagePrefix(msgIn.status) \o C7_ClaimedText(msgIn.data)

\* the bodies that are falsy in JavaScript
EmptyBodies == {Undefined, Null, Str(""), Num(0)}

\* C7 amended: m is body.message when the body has a non-empty message; otherwise the
\* JSON text of the body whenever the body is truthy (an empty object gives {}, an empty
\* array [], a non-empty string its quoted text); 'No response body' only for a missing,
\* null, empty-string or zero body
C7_ErrorMessage ==
    msgOut # Undefined =>
        /\ msgOut.t = "rejected" <=> msgIn.status >= 400
        /\ msgOut.t = "resolved" => msgOut.value.body = msgIn.data
        /\ msgOut.t = "rejected" =>
              LET b == msgIn.data
                  m == msgOut.error.message
                  pre == MessagePrefix(msgIn.status)
              IN  /\ msgOut.error.code = "MICROSERVICE_FAILED"
                  /\ msgOut.error.statusCode = msgIn.status
                  /\ b \in EmptyBodies => m = pre \o "No response body"
                  /\ (HasField(b, "message") /\ GetField(b, "message") \notin EmptyBodies)
                        => m = pre \o ToStr(GetField(b, "message"))
                  /\ (b \notin EmptyBodies
                        /\ ~(HasField(b, "message") /\ GetField(b, "message") \notin EmptyBodies))
                        => m = pre \o JsonStringify(b)
                  /\ b = Obj(<<>>) => m = pre \o "{}"
                  /\ b = Arr(<<>>) => m = pre \o "[]"
                  /\ b = Str("oops") => m = pre \o "\"oops\""
                  /\ (b = Obj(<< <<"foo", Str("bar")>> >>) /\ msgIn.status = 400)
                        => m = "Microservice failed (400): {\"foo\":\"bar\"}"
                  /\ (b = Obj(<< <<"message", Str("Something failed")>> >>) /\ msgIn.status = 500)
                        => m = "Microservice failed (500): Something failed"

C7_Witness ==
    /\ msgOut # Undefined
    /\ msgOut.t = "rejected"
    /\ msgIn.data = Obj(<<>>)
    /\ msgOut.error.message = "Microservice failed (504): {}"

\* the keys of a map, and the value of a key
ParamKeys(m) == IF m.t = "object" THEN {m.fields[i][1] : i \in 1..Len(m.fields)} ELSE {}

IsFirst(tokens, i) == \A j \in 1..(i - 1) : tokens[j] # tokens[i]

\* C8 as claimed: every {k} placeholder of every key k is replaced by the string form of
\* the value of k, every other token is left as it is
C8_EveryPlaceholderReplaced ==
    urlOut # Undefined =>
        /\ Len(urlOut.items) = Len(urlIn.endpoint)
        /\ \A i \in 1..Len(urlIn.endpoint) :
              urlOut.items[i] =
                 IF \E k \in ParamKeys(urlIn.endpointParameters) :
                       urlIn.endpoint[i] = Placeholder(k)
                 THEN ToStr(GetField(urlIn.endpointParameters,
                         CHOOSE k \in ParamKeys(urlIn.endpointParameters) :
                            urlIn.endpoint[i] = Placeholder(k)))
                 ELSE urlIn.endpoint[i]

\* no value of the map is itself a placeholder of a key of the map
PlainValues(m) ==
    \A k \in ParamKeys(m), k2 \in ParamKeys(m) : ToStr(GetField(m, k)) # Placeholder(k2)

\* C8 amended: for every key k of the map the first {k} placeholder is replaced by the
\* string form of the value of k (the values holding no placeholder themselves), later
\* {k} placeholders and the placeholders of no key are left as they are; the alarms
\* example gives /alarms/foo/state/ok; a null or missing map leaves the template unchanged
C8_PathSubstitution ==
    urlOut # Undefined =>
        /\ Len(urlOut.items) = Len(urlIn.endpoint)
        /\ ~Truthy(urlIn.endpointParameters) => urlOut.items = urlIn.endpoint
        /\ PlainValues(urlIn.endpointParameters) =>
              \A i \in 1..Len(urlIn.endpoint) :
                 urlOut.items[i] =
                    IF /\ \E k \in ParamKeys(urlIn.endpointParameters) :
                             urlIn.endpoint[i] = Placeholder(k)
                       /\ IsFirst(urlIn.endpoint, i)
                    THEN ToStr(GetField(urlIn.endpointParameters,
                            CHOOSE k \in ParamKeys(urlIn.endpointParameters) :
                               urlIn.endpoint[i] = Placeholder(k)))
                    ELSE urlIn.endpoint[i]
        /\ (urlIn.endpoint = AlarmsTemplate
              /\ urlIn.endpointParameters =
                    Obj(<< <<"alarmName", Str("foo")>>, <<"alarmState", Str("ok")>> >>))
              => Join(urlOut.items) = "/alarms/foo/state/ok"

C8_Witness ==
    /\ urlOut # Undefined
    /\ urlIn.endpoint = <<"{x}", "/a/", "{x}">>
    /\ urlIn.endpointParameters = Obj(<< <<"x", Str("foo")>>, <<"y", Str("ok")>> >>)
    /\ urlOut.items = <<"foo", "/a/", "{x}">>

---------------------------------------------------------------------------
(* Properties of list() (short-page strategy).                             *)

RECURSIVE ConcatBodies(_)
\* the bodies of the pages, one after another
ConcatBodies(pages) ==
    IF pages = <<>> THEN <<>> ELSE pages[1].body.items \o ConcatBodies(Tail(pages))

AllPagesOk(l) ==
    /\ lister[l].pages # <<>>
    /\ \A i \in 1..Len(lister[l].pages) : lister[l].pages[i].statusCode < 400

Returned(l) == lister[l].pc = "returning" /\ lister[l].result.t = "resolved"

\* C9: when every page has statusCode < 400 the body list() returns is the concatenation,
\* in page order, of the bodies of all pages received (here: the items 1..N of the API,
\* each once and in order), with the statusCode, statusMessage and headers of the last page
C9_ListBody ==
    \A l \in Listers :
        (Returned(l) /\ AllPagesOk(l)) =>
            LET r == lister[l].result.value
                last == lister[l].pages[Len(lister[l].pages)]
            IN  /\ r.body = Arr(ConcatBodies(lister[l].pages))
                /\ r.body = Arr([i \in 1..backend |-> Num(i)])
                /\ r.statusCode = last.statusCode
                /\ r.statusMessage = last.statusMessage
                /\ r.headers = last.headers

C9_Witness ==
    \E l \in Listers :
        /\ Returned(l) /\ AllPagesOk(l)
        /\ lister[l].pageSize = 2
        /\ Len(lister[l].pages) = 2
        /\ lister[l].result.value.body = Arr(<<Num(1), Num(2), Num(3)>>)
        /\ lister[l].result.value.headers = Obj(<< <<"x-page", Num(2)>> >>)

\* C10: the loop goes on exactly while the page just received holds pageSize items and
\* stops at the first page that does not; over N items served in full pages of size p
\* list() sends floor(N/p)+1 page requests
C10_ShortPageStop ==
    \A l \in Listers :
        /\ lister[l].pc = "page" =>
              /\ lister[l].page = Len(lister[l].pages) + 1
              /\ \A i \in 1..Len(lister[l].pages) :
                    /\ lister[l].pages[i].statusCode < 400
                    /\ Len(lister[l].pages[i].body.items) = lister[l].pageSize
        /\ (Returned(l) /\ AllPagesOk(l)) =>
              /\ \A i \in 1..(Len(lister[l].pages) - 1) :
                    Len(lister[l].pages[i].body.items) = lister[l].pageSize
              /\ Len(lister[l].pages[Len(lister[l].pages)].body.items) < lister[l].pageSize
              /\ lister[l].page = Len(lister[l].pages)
              /\ lister[l].sent = (backend \div lister[l].pageSize) + 1
              /\ Len(lister[l].pages) = (backend \div lister[l].pageSize) + 1

C10_Witness ==
    \E l \in Listers :
        /\ Returned(l) /\ AllPagesOk(l)
        /\ backend = 3
        /\ lister[l].pageSize = 1
        /\ lister[l].sent = 4
        /\ lister[l].pages[4].body = Arr(<<>>)

---------------------------------------------------------------------------
(* Paging of list() and safeList().                                        *)

\* lister l's call sends its request to the remote API in this step
PageRequested(l) == proc[l].pc = "ready" /\ proc'[l].pc = "request"

C11_Step(l) ==
    PageRequested(l) /\ lister[l].pc = "page" =>
        LET me == lister[l]
            cursor == me.sent + 1
            size == IF Truthy(me.pageSizeArg) THEN me.pageSizeArg.n ELSE 60
        IN  /\ Len(me.pages) = me.sent
            /\ proc'[l].triple = ListTriple /\ proc'[l].triple[3] = "list"
            /\ proc'[l].data = me.requestData
            /\ proc'[l].params = me.endpointParameters
            /\ GetField(proc'[l].headers, "x-janis-page") = Num(cursor)
            /\ GetField(proc'[l].headers, "x-janis-page-size") = Num(size)
            /\ proc'[l].rreq = 1

\* C11: the pages of one list() or safeList() are requested one after another: the
\* request of a page goes out when every page before it has been answered, its cursor is
\* the number of pages requested so far plus one, it targets method 'list' with the
\* requestData and endpointParameters of the invocation, and it carries x-janis-page equal
\* to the cursor and x-janis-page-size equal to the pageSize argument, or 60 without one.
C11_SequentialPages == [][\A l \in Listers : C11_Step(l)]_vars

\* the third page of a list with requestData, endpointParameters and pageSize 1 is on its
\* way, the first two pages answered
C11_Witness ==
    \E l \in Listers :
        /\ lister[l].pc = "page" /\ lister[l].pageSizeArg = Num(1)
        /\ lister[l].requestData = ListFilters
        /\ Len(lister[l].pages) = 2 /\ lister[l].sent = 2
        /\ proc[l].pc = "request"
        /\ GetField(proc[l].headers, "x-janis-page") = Num(3)

\* lister l takes up the settled call of its page in this step
PageSettled(l) == lister[l].pc = "page" /\ proc[l].pc = "done" /\ lister'[l] # lister[l]

C12_Step(l) ==
    /\ (PageSettled(l) /\ proc[l].kind = "call") =>
          /\ (proc[l].rAns.kind = "resolve" /\ proc[l].rAns.status >= 400) =>
                proc[l].outcome.t = "rejected"
          /\ proc[l].outcome.t = "rejected" =>
                /\ lister'[l].pc = "returning"
                /\ lister'[l].result = proc[l].outcome
                /\ lister'[l].sent = lister[l].sent + proc[l].rreq
                /\ lister'[l].sent <= lister[l].page
    /\ lister'[l].pc = "returning" => proc'[l] = Idle
    /\ lister[l].pc = "returning" => lister'[l] \in {lister[l], LIdle}

\* C12: a page of list() requested through call() whose call rejects (statusCode >= 400,
\* or a failed resolution, secret lookup or transport) makes list() reject with that same
\* error: the items of the pages before it are not returned, and no request follows.
C12_ListRejects == [][\A l \in Listers : C12_Step(l)]_vars

\* list() rejects with the MICROSERVICE_FAILED of its second page, the item of the first
\* page gathered and two requests sent
C12_Witness ==
    \E l \in Listers :
        /\ lister[l].pc = "returning" /\ lister[l].op = "list"
        /\ lister[l].result.t = "rejected"
        /\ lister[l].result.error.code = "MICROSERVICE_FAILED"
        /\ lister[l].result.error.statusCode = 500
        /\ Len(lister[l].pages) = 1 /\ Len(lister[l].items) = 1 /\ lister[l].sent = 2
        /\ ~makeSafeCall

C13_Step(l) ==
    (PageSettled(l) /\ lister[l].op = "safeList"
        /\ proc[l].rAns.kind = "resolve" /\ proc[l].rAns.status >= 400) =>
        /\ lister'[l].pc = "returning"
        /\ lister'[l].result.t = "resolved"
        /\ SameResponse(lister'[l].result.value, proc[l].rAns)
        /\ proc'[l] = Idle

\* C13: safeList() stops at the first page answered with statusCode >= 400 and resolves
\* with the response of that page as it was received, none of the items of the earlier
\* pages in it; it requests no further page and does not reject.
C13_SafeListResolves == [][\A l \in Listers : C13_Step(l)]_vars

\* lister l of an MsCall takes up the settled call of its page in this step
MsPageSettled(l) == lister[l].pc = "page" /\ efProc[l].pc = "settled" /\ lister'[l] # lister[l]

C14_Step(l) ==
    (MsPageSettled(l) /\ lister[l].op = "safeList"
        /\ efProc[l].lAns.kind = "resolve" /\ efProc[l].lAns.response.statusCode >= 400) =>
        /\ lister'[l].pc = "returning"
        /\ lister'[l].result = Resolved(efProc[l].lAns.response)
        /\ lister'[l].invoked = Len(lister'[l].received)
        /\ efProc'[l] = EfIdleProc

\* C14: MsCall.safeList() resolves with the response of a page the lambda answers with
\* statusCode >= 400, unchanged and after a single invocation, and never rejects,
\* whatever the shape of that response (no headers, a body that is an object).
C14_MsSafeListResolves == [][\A l \in Listers : C14_Step(l)]_vars

\* the same statement for the list() of part_008 alone, which does hold
C14_GuardedSafeListResolves == [][\A l \in Listers : lister[l].guarded => C14_Step(l)]_vars

---------------------------------------------------------------------------
(* Properties of shouldRetry.                                              *)

ExcludedMessages ==
    {"Argument passed in must be a single String of 12 bytes or a string of 24 hex characters",
     "Invalid client"}

\* the message of the service behind an outcome: body.message of the response
ServiceMessage(r) ==
    IF Truthy(r.body) /\ Truthy(GetField(r.body, "message"))
    THEN ToStr(GetField(r.body, "message")) ELSE ""

\* C15: shouldRetry is true for an outcome without statusCode; with one, it is true
\* exactly when statusCode >= 500 and the message of the outcome is not an excluded
\* message: false below 500, false for a 5xx with an excluded message, true for any other
\* 5xx, for the response form and for the error form of the outcome alike.
C15_ShouldRetry ==
    retryOut # Undefined =>
        IF retryIn.outcome.statusCode = 0 THEN retryOut.b
        ELSE retryOut.b = (retryIn.outcome.statusCode >= 500
                              /\ ServiceMessage(retryIn.from) \notin ExcludedMessages)

\* the same statement for messages without a parenthesis, which does hold
C15_ShouldRetryPlainMessage ==
    (retryOut # Undefined /\ retryIn.form # "none"
        /\ FirstParen(ServiceMessage(retryIn.from), 1) = 0) => C15_ShouldRetry

ResolutionCodes ==
    {"INVALID_DISCOVERY_HOST_SETTING", "ENDPOINT_NOT_FOUND", "ENDPOINT_REQUEST_FAILED"}

\* C16: for the errors of the resolution step shouldRetry is false on
\* INVALID_DISCOVERY_HOST_SETTING and on ENDPOINT_NOT_FOUND, and true on
\* ENDPOINT_REQUEST_FAILED.
C16_ShouldRetryResolutionErrors ==
    (retryOut # Undefined /\ IsMsError(retryIn.outcome)
        /\ retryIn.outcome.code \in ResolutionCodes) =>
        retryOut.b = (retryIn.outcome.code = "ENDPOINT_REQUEST_FAILED")

---------------------------------------------------------------------------
(* Properties of the resolution step of MsCall.                            *)

\* call() or safeCall() is invoked by caller p in this step
MsCallStarts(p) ==
    efProc[p].pc = "idle" /\ efProc'[p].pc # "idle" /\ efProc'[p].kind \in {"call", "safeCall"}

HasCode(outcome, code) == outcome.t = "rejected" /\ outcome.error.code = code

C17_Step(p) ==
    /\ (MsCallStarts(p) /\ efSetting = "") =>
          /\ efProc'[p].pc = "settled"
          /\ HasCode(efProc'[p].result, "INVALID_DISCOVERY_HOST_SETTING")
          /\ efProc'[p].result.error.name = "MicroServiceCallError"
          /\ efProc'[p].dreq = 0 /\ efProc'[p].lreq = 0
          /\ efCache' = efCache /\ efEndpoint' = efEndpoint
    /\ (MsCallStarts(p) /\ efSetting # "" /\ ~Truthy(efCache[DashKey(efProc'[p].triple)])) =>
          /\ efProc'[p].pc = "fetch" /\ efProc'[p].dreq = 1

\* C17: with the discoveryHost setting missing, call() rejects with a MicroServiceCallError
\* of code INVALID_DISCOVERY_HOST_SETTING, sends no discovery request and invokes nothing,
\* and leaves the cache and the memoised endpoint as they were: a call made once the
\* setting is there goes to discovery as a first call does.
C17_MissingSetting == [][\A p \in Procs : C17_Step(p)]_vars

\* a call has been rejected for the missing setting without any request, and a call made
\* after the setting was configured has its discovery request on the way
C17_Witness ==
    \E p, q \in Procs :
        /\ efProc[p].pc = "settled" /\ efProc[p].kind = "call"
        /\ HasCode(efProc[p].result, "INVALID_DISCOVERY_HOST_SETTING")
        /\ efProc[p].dreq = 0 /\ efProc[p].lreq = 0
        /\ efSetting = DiscoveryHost
        /\ efProc[q].pc = "fetch" /\ efProc[q].triple = efProc[p].triple
        /\ \A k \in DashKeys : efCache[k] = Undefined

\* the discovery request of caller p is answered in this step
FetchAnswered(p) == efProc[p].pc = "fetch" /\ efProc'[p].pc # "fetch"

C18_Step(p) ==
    (FetchAnswered(p) /\ efProc'[p].ans.kind = "resolve" /\ efProc'[p].ans.status >= 400) =>
        /\ efProc'[p].pc = "settled"
        /\ HasCode(efProc'[p].result, "ENDPOINT_NOT_FOUND")
        /\ efProc'[p].result.error.name = "MicroServiceCallError"
        /\ efProc'[p].lreq = 0
        /\ efCache' = efCache

\* C18: a discovery request answered with a status >= 400 makes call() and safeCall() of
\* MsCall reject with a MicroServiceCallError of code ENDPOINT_NOT_FOUND, and the lambda
\* of the service is not invoked.
C18_EndpointNotFound == [][\A p \in Procs : C18_Step(p)]_vars

\* safeCall() has been rejected with ENDPOINT_NOT_FOUND for a discovery answer 404, one
\* discovery request sent and nothing invoked
C18_Witness ==
    \E p \in Procs :
        /\ efProc[p].pc = "settled" /\ efProc[p].kind = "safeCall"
        /\ efProc[p].ans.kind = "resolve" /\ efProc[p].ans.status = 404
        /\ HasCode(efProc[p].result, "ENDPOINT_NOT_FOUND")
        /\ efProc[p].dreq = 1 /\ efProc[p].lreq = 0

C18_DiscoveryStep(p) ==
    (proc[p].pc = "discovery" /\ proc'[p].pc # "discovery"
        /\ proc'[p].dAns.kind = "resolve"
        /\ (proc'[p].dAns.payload.errorMessage # "" \/ proc'[p].dAns.functionError # "")) =>
        /\ proc'[p].pc = "done"
        /\ HasCode(proc'[p].outcome, "DISCOVERY_ERROR")
        /\ proc'[p].outcome.error.name = "MicroServiceCallError"
        /\ proc'[p].rreq = 0 /\ proc'[p].sreq = 0
        /\ cache' = cache

\* the same statement for Discovery.getEndpoint (lib/discovery.js): an answer with an
\* errorMessage or a functionError makes call() and safeCall() of MicroServiceCall reject
\* with DISCOVERY_ERROR, no request sent
C18_DiscoveryError == [][\A p \in Procs : C18_DiscoveryStep(p)]_vars

C19_DiscoveryStep(p) ==
    (proc[p].pc = "discovery" /\ proc'[p].pc # "discovery" /\ proc'[p].dAns.kind = "reject") =>
        /\ proc'[p].pc = "done"
        /\ proc'[p].outcome.t = "rejected"
        /\ proc'[p].outcome.error.name = "MicroServiceCallError"
        /\ proc'[p].rreq = 0

\* C19: a discovery lookup whose transport fails makes call() and safeCall() reject with
\* a MicroServiceCallError that wraps the cause, never with the raw error of the lower
\* layer, and the remote service is not invoked; here for Discovery.getEndpoint.
C19_LookupFailureWrapped == [][\A p \in Procs : C19_DiscoveryStep(p)]_vars

C19_FetcherStep(p) ==
    (FetchAnswered(p) /\ efProc'[p].ans.kind = "reject") =>
        /\ efProc'[p].pc = "settled"
        /\ HasCode(efProc'[p].result, "ENDPOINT_REQUEST_FAILED")
        /\ efProc'[p].result.error.name = "MicroServiceCallError"
        /\ efProc'[p].result.error.message = efProc'[p].ans.message
        /\ efProc'[p].lreq = 0
        /\ efCache' = efCache

\* the same statement for EndpointFetcher.get, which does hold: the error of the request
\* comes back as ENDPOINT_REQUEST_FAILED and the lambda is not invoked
C19_EndpointRequestFailed == [][\A p \in Procs : C19_FetcherStep(p)]_vars

C20_Step(p) ==
    (FetchAnswered(p) /\ efProc'[p].ans.kind = "resolve" /\ efProc'[p].ans.status < 400
        /\ ~EfComplete(efProc'[p].ans.data)) =>
        /\ efProc'[p].pc = "settled"
        /\ efProc'[p].result.t = "rejected"
        /\ efProc'[p].result.error.name = "MicroServiceCallError"
        /\ efProc'[p].lreq = 0
        /\ efCache' = efCache

\* C20: a successful discovery answer that lacks a required field is a failed resolution:
\* the lookup rejects with a MicroServiceCallError, the incomplete descriptor is not
\* cached and the service is not invoked; here for EndpointFetcher.get under MsCall.
C20_IncompleteDescriptor == [][\A p \in Procs : C20_Step(p)]_vars

C20_DiscoveryStep(p) ==
    (proc[p].pc = "discovery" /\ proc'[p].pc # "discovery"
        /\ proc'[p].dAns.kind = "resolve"
        /\ (proc'[p].dAns.payload.baseUrl = <<>> \/ proc'[p].dAns.payload.path = <<>>
               \/ proc'[p].dAns.payload.method = "")) =>
        /\ proc'[p].pc = "done"
        /\ HasCode(proc'[p].outcome, "DISCOVERY_ERROR")
        /\ proc'[p].outcome.error.name = "MicroServiceCallError"
        /\ proc'[p].rreq = 0
        /\ cache' = cache

\* the same statement for Discovery.getEndpoint, which does hold
C20_DiscoveryIncomplete == [][\A p \in Procs : C20_DiscoveryStep(p)]_vars

---------------------------------------------------------------------------
(* C21: the headers of an outgoing request.                                *)

\* call p hands its request to axios in this step
RequestSent(p) == proc[p].pc = "ready" /\ proc'[p].pc = "request"

HeaderNames ==
    {"content-type", "janis-api-key", "janis-api-secret", "janis-client", "x-janis-user",
     "x-custom"}

KeysOf(x) == IF x.t = "object" THEN {x.fields[i][1] : i \in 1..Len(x.fields)} ELSE {}

\* what the session contributes under a header name
FromSession(sess, k) ==
    CASE k = "janis-client" /\ Truthy(sess) -> GetField(sess, "clientCode")
      [] k = "x-janis-user" /\ Truthy(sess) -> GetField(sess, "userId")
      [] OTHER -> Undefined

\* what the credentials contribute under a header name
FromCredentials(k) ==
    CASE k = "janis-api-key" ->
             Str("service-" \o ServiceName \o
                 (IF Truthy(apiKeyUser) THEN "_user-" \o apiKeyUser.v ELSE ""))
      [] k = "janis-api-secret" -> secretValue
      [] OTHER -> Undefined

\* the value the request must carry under a header name; undefined stands for no header
ExpectedHeader(requestHeaders, k) ==
    IF k \in KeysOf(requestHeaders) THEN GetField(requestHeaders, k)
    ELSE IF Truthy(FromSession(session, k)) THEN FromSession(session, k)
    ELSE IF k \in {"janis-api-key", "janis-api-secret"} THEN FromCredentials(k)
    ELSE IF k = "content-type" THEN Str("application/json")
    ELSE Undefined

C21_Step(p) ==
    RequestSent(p) =>
        /\ KeysOf(proc'[p].request.headers) \subseteq HeaderNames
        /\ \A k \in HeaderNames :
              /\ GetField(proc'[p].request.headers, k) = ExpectedHeader(proc[p].headers, k)
              /\ k \in KeysOf(proc'[p].request.headers) <=> ExpectedHeader(proc[p].headers, k) # Undefined

\* C21: the headers of every outgoing request are the merge, the later source winning on a
\* shared key, of content-type application/json, the credential headers, the session
\* headers and the caller's headers; janis-client and x-janis-user come from the session
\* only when it has a clientCode, respectively a userId.
C21_HeaderMerge == [][\A p \in Procs : C21_Step(p)]_vars

\* a request went out whose caller overrode content-type and janis-client, and whose
\* x-janis-user came from the session
C21_Witness ==
    /\ GetField(session, "clientCode") = Str("fizzmod")
    /\ \E p \in Procs :
          /\ proc[p].pc = "request"
          /\ GetField(proc[p].request.headers, "content-type") = Str("text/plain")
          /\ GetField(proc[p].request.headers, "janis-client") = Str("other-client")
          /\ GetField(proc[p].request.headers, "x-janis-user") = Str("dummy-user-id")
          /\ GetField(proc[p].request.headers, "janis-api-secret") = Str("insecure-secret")

---------------------------------------------------------------------------
(* C25: setUserId is one-shot.                                             *)

C25_Step(p) ==
    RequestSent(p) /\ "janis-api-key" \notin KeysOf(proc[p].headers) =>
        GetField(proc'[p].request.headers, "janis-api-key") =
            IF userSet \notin {Undefined, Null, Str("")}
            THEN Str("service-dummy-service_user-" \o userSet.v)
            ELSE Str("service-dummy-service")

\* C25: the first request sent after setUserId(u) has janis-api-key
\* 'service-<name>_user-<u>'; a request sent with no setUserId since the request before it,
\* or after setUserId with a falsy value, has 'service-<name>'.
C25_SetUserIdOneShot == [][\A p \in Procs : C25_Step(p)]_vars

\* a request carried the user part, and the request after it is about to go out with no
\* setUserId in between
C25_Witness ==
    /\ userSet = Undefined
    /\ apiKeyUser = Null
    /\ \E p, q \in Procs :
          /\ proc[p].pc = "request"
          /\ GetField(proc[p].request.headers, "janis-api-key") =
                Str("service-dummy-service_user-user-1")
          /\ proc[q].pc = "ready"

---------------------------------------------------------------------------
(* C22: a secret of the environment.                                       *)

\* the secret store has been queried by a call in progress
StoreQueried == \E p \in Procs : proc[p].sreq > 0 \/ proc[p].pc = "secret"

\* C22: with JANIS_SERVICE_SECRET set or JANIS_ENV 'local' no call queries the secret
\* store, and every request carries as janis-api-secret the fixed local secret in local
\* mode, else the value of JANIS_SERVICE_SECRET.
C22_EnvironmentSecret ==
    env.janisEnv = "local" \/ env.serviceSecret # "" =>
        /\ ~StoreQueried
        /\ \A p \in Procs :
              proc[p].request # NoRequest =>
                  GetField(proc[p].request.headers, "janis-api-secret") =
                      IF env.janisEnv = "local" THEN Str("local-environment-secret")
                      ELSE Str(env.serviceSecret)

\* in local mode with JANIS_SERVICE_SECRET set a request is out with the local secret
C22_Witness ==
    /\ env = [janisEnv |-> "local", serviceSecret |-> "insecure-secret"]
    /\ \E p \in Procs :
          /\ proc[p].pc = "request"
          /\ GetField(proc[p].request.headers, "janis-api-secret") =
                Str("local-environment-secret")

---------------------------------------------------------------------------
(* C23: the secret is fetched once.                                        *)

NoEnvSecret == env = [janisEnv |-> "prod", serviceSecret |-> ""]

\* call p is the only call in progress
Alone(p) == \A q \in Procs \ {p} : proc[q].pc = "idle"

\* an earlier fetch has stored the secret of the store
SecretStored == secretValue.t = "string"

C23_Step(p) ==
    NoEnvSecret /\ SecretStored /\ Alone(p) =>
        /\ proc[p].pc = "endpoint" /\ proc'[p].pc # "endpoint" =>
              /\ proc'[p].pc = "ready"
              /\ proc'[p].sreq = 0
              /\ secretValue' = secretValue
        /\ RequestSent(p) =>
              GetField(proc'[p].request.headers, "janis-api-secret") = secretValue

\* C23: without an environment secret, once a fetch has succeeded, every later call made
\* while no other call is in progress sends the stored secret as janis-api-secret and
\* does not query the secret store.
C23_SecretFetchedOnce == [][\A p \in Procs : C23_Step(p)]_vars

\* a later call has its request out with the stored secret and has not queried the store
C23_Witness ==
    /\ NoEnvSecret
    /\ secretValue = Str("fetched-secret")
    /\ proc[1].pc = "request" /\ proc[1].sreq = 0
    /\ Alone(1)
    /\ GetField(proc[1].request.headers, "janis-api-secret") = Str("fetched-secret")

---------------------------------------------------------------------------
(* C24: the secret store fails.                                            *)

\* the secret store answers call p in this step, or throws
StoreAnswered(p) ==
    /\ proc'[p].sAns # NoAnswer
    /\ proc[p].sAns = NoAnswer

C24_Step(p) ==
    NoEnvSecret /\ StoreAnswered(p) /\ SecretFailed(proc'[p].sAns) =>
        /\ proc'[p].pc = "done"
        /\ proc'[p].outcome.t = "rejected"
        /\ proc'[p].outcome.error.name = "MicroServiceCallError"
        /\ proc'[p].outcome.error.code = "JANIS_SECRET_MISSING"
        /\ proc'[p].outcome.error.message = "Microservice failed: Secret is missing"
        /\ proc'[p].rreq = 0
        /\ proc'[p].request = NoRequest

\* C24: without an environment secret, when the secret store throws, rejects or answers
\* with a value that has no apiSecret, the call rejects with the MicroServiceCallError
\* JANIS_SECRET_MISSING 'Microservice failed: Secret is missing' and sends no request.
C24_SecretMissing == [][\A p \in Procs : C24_Step(p)]_vars

\* a call was rejected on an answer of the store without apiSecret, no request sent
C24_Witness ==
    \E p \in Procs :
        /\ proc[p].kind = "call"
        /\ proc[p].sAns = [kind |-> "resolve", value |-> Obj(<<>>)]
        /\ proc[p].outcome = Rejected(SecretMissing)
        /\ proc[p].rreq = 0

---------------------------------------------------------------------------
(* C26: where the request data goes.                                       *)

QueryVerbs == {"GET", "get", "Delete"}
BodyVerbs == {"POST", "put", "Patch"}

C26_Step(p) ==
    RequestSent(p) =>
        LET verb == proc[p].desc.httpMethod
            requestData == proc[p].data
        IN  /\ verb \in QueryVerbs =>
                  proc'[p].request.params = requestData /\ proc'[p].request.data = Undefined
            /\ verb \in BodyVerbs =>
                  proc'[p].request.data = requestData /\ proc'[p].request.params = Undefined
            /\ verb \notin QueryVerbs \cup BodyVerbs =>
                  proc'[p].request.data = Undefined /\ proc'[p].request.params = Undefined
            /\ ~(proc'[p].request.data = requestData /\ proc'[p].request.params = requestData)

\* C26: the request data is sent as the query, with no body, when the resolved verb is
\* GET or DELETE in any letter case; as the body, with no query, when it is POST, PUT or
\* PATCH; never as both; and as neither for any other verb.
C26_DataPlacement == [][\A p \in Procs : C26_Step(p)]_vars

\* a request went out with its data as the query, the verb being written 'Delete'
C26_Witness ==
    \E p \in Procs :
        /\ proc[p].pc = "request" /\ proc[p].desc.httpMethod = "Delete"
        /\ proc[p].data = Obj(<< <<"foo", Str("bar")>> >>)
        /\ proc[p].request.params = proc[p].data
        /\ proc[p].request.data = Undefined

---------------------------------------------------------------------------
(* C27: the lists that follow the total count.                             *)

\* every page lister l has received so far was served by the list API
AllPagesServed(l) ==
    \A k \in 1..Len(lister[l].received) : lister[l].received[k].statusCode = 200

RECURSIVE ItemsUpTo(_, _)
\* the number of items of the first k pages received
ItemsUpTo(pages, k) ==
    IF k = 0 THEN 0 ELSE ItemsUpTo(pages, k - 1) + Len(pages[k].body.items)

\* the x-janis-total header of the k-th page received
TotalOf(pages, k) == GetField(pages[k].headers, "x-janis-total").n

\* the number of pages of a list of T items: an empty list has one, empty, page
PagesOf(T, pageSize) == IF T = 0 THEN 1 ELSE (T + pageSize - 1) \div pageSize

\* while the loop goes on, the page asked for is the one after those received, and the
\* items accumulated with each page received were fewer than its total
C27_Cursors ==
    \A l \in Listers :
        LET me == lister[l]
            n == Len(me.received)
        IN  AllPagesServed(l) /\ me.pc = "page" =>
                /\ GetField(efProc[l].headers, "x-janis-page") = Num(n + 1)
                /\ GetField(efProc[l].headers, "x-janis-page-size") = Num(me.pageSize)
                /\ \A k \in 1..n : ItemsUpTo(me.received, k) < TotalOf(me.received, k)

\* the call of a page resolves with a page of the list API: the loop goes on exactly
\* when the items are fewer than the total, else the list returns
C27_Step(l) ==
    /\ MsPageSettled(l)
    /\ efProc[l].result.t = "resolved"
    /\ AllPagesServed(l)
    /\ efProc[l].result.value.statusCode = 200
    => LET me == lister'[l]
           n == Len(me.received)
       IN  /\ n = Len(lister[l].received) + 1
           /\ me.received[n] = efProc[l].result.value
           /\ me.invoked = n
           /\ IF ItemsUpTo(me.received, n) < TotalOf(me.received, n)
              THEN me.pc = "page"
              ELSE /\ me.pc = "returning"
                   /\ n = PagesOf(backend, me.pageSize)
                   /\ me.result = Resolved([me.received[n] EXCEPT
                                      !.body = Arr([i \in 1..backend |-> Num(i)])])

\* C27: list() and safeList() of MsCall ask for the pages 1, 2, 3, ... and stop after
\* the first page with which the items accumulated are no longer fewer than the
\* x-janis-total of that page: one request per page of the list, and the result is the
\* response of the last page with all the items, in page order, as its body.
C27_TotalCountList == []C27_Cursors /\ [][\A l \in Listers : C27_Step(l)]_vars

\* a list of three items served one item a page has returned after three requests
C27_Witness ==
    \E l \in Listers :
        /\ lister[l].pc = "returning" /\ AllPagesServed(l)
        /\ backend = 3 /\ lister[l].pageSize = 1
        /\ lister[l].invoked = 3
        /\ lister[l].result.t = "resolved"
        /\ lister[l].result.value.body = Arr(<<Num(1), Num(2), Num(3)>>)

\* a list of no item has returned after one request
C27_WitnessEmpty ==
    \E l \in Listers :
        /\ lister[l].pc = "returning" /\ AllPagesServed(l)
        /\ backend = 0 /\ lister[l].invoked = 1
        /\ lister[l].result.t = "resolved"
        /\ lister[l].result.value.body = Arr(<<>>)

---------------------------------------------------------------------------
(* C28: concurrent lookups of one triple.                                  *)

\* the descriptor made of one answer of the discovery service
WholeOf(ans) ==
    [endpoint |-> ans.payload.baseUrl \o ans.payload.path, httpMethod |-> ans.payload.method]

\* the lookup of call p is answered in this step
LookupAnswered(p) == proc[p].pc = "discovery" /\ proc'[p].dAns # NoAnswer

C28_Step ==
    /\ \A p \in Procs :
          /\ LookupAnswered(p) /\ proc'[p].pc # "done" =>
                /\ proc'[p].desc = WholeOf(proc'[p].dAns)
                /\ cache' = [cache EXCEPT ![CacheKey(proc[p].triple)] = WholeOf(proc'[p].dAns)]
          /\ proc[p].pc = "idle" /\ proc'[p].pc = "endpoint" =>
                /\ proc'[p].desc = cache[CacheKey(proc'[p].triple)]
                /\ proc'[p].dreq = 0
    /\ cache' # cache => \E p \in Procs : LookupAnswered(p)

\* the descriptors the answers of the lookups of a triple can make
WholeDescriptors(t) ==
    {WholeOf(ans) : ans \in {a \in LookupAnswers(t) : a.payload.errorMessage = ""}}

C28_Entries ==
    /\ \A t \in Triples : cache[CacheKey(t)] \in WholeDescriptors(t) \cup {NoDesc}
    /\ \A p \in Procs :
          proc[p].pc \in {"endpoint", "ready", "request"} =>
              proc[p].desc \in WholeDescriptors(proc[p].triple)

\* C28: when lookups of one uncached triple run concurrently, the cache entry is at all
\* times, and so after they have finished, the descriptor of one answer, endpoint and
\* httpMethod together; every caller goes on with the descriptor of its own answer; and
\* a later lookup returns the stored entry without a request.
C28_SelfConsistentEntry == []C28_Entries /\ [][C28_Step]_vars

\* two lookups of one triple were answered differently: the first caller holds the
\* descriptor of its answer while the entry is that of the second answer
C28_Witness ==
    /\ proc[1].triple = proc[2].triple
    /\ proc[1].dreq = 1 /\ proc[2].dreq = 1
    /\ proc[1].pc = "request" /\ proc[2].pc = "request"
    /\ proc[1].desc # proc[2].desc
    /\ cache[CacheKey(proc[1].triple)] \in {proc[1].desc, proc[2].desc}

\* EndpointFetcher: the entry of a triple is the data of one answer, as it came
C28_FetcherEntries ==
    \A t \in Triples :
        efCache[DashKey(t)] \in
            {Undefined} \cup {a.data : a \in {x \in FetchAnswers(t) :
                                                x.kind = "resolve" /\ x.status < 400}}

---------------------------------------------------------------------------
(* C29: one cache entry per triple.                                        *)

\* the descriptor the discovery service gives for a triple
KeyDescriptor(t) ==
    [endpoint |-> KeyRegistry(t).baseUrl \o KeyRegistry(t).path,
     httpMethod |-> KeyRegistry(t).method]

\* call p starts in this step
Starts(p) == proc[p].pc = "idle" /\ proc'[p].pc # "idle"

C29_Step(p) ==
    /\ Starts(p) /\ proc'[p].triple \notin resolved => proc'[p].dreq = 1
    /\ Starts(p) /\ proc'[p].pc = "endpoint" => proc'[p].desc = KeyDescriptor(proc'[p].triple)

\* C29: a lookup never returns the descriptor stored for another triple, and the first
\* lookup of a triple sends its own discovery request, also for triples that differ in
\* the order or the letter case of their parts or whose parts contain the separator.
C29_OneEntryPerTriple == [][\A p \in Procs : C29_Step(p)]_vars

\* no part of the triple contains the separator of the key
NoSeparator(t) == \A i \in 1..3 : \A j \in 1..Len(t[i]) : SubSeq(t[i], j, j) # "."

\* for triples without the separator in their parts the entries are kept apart
C29_PlainTriples ==
    [][\A p \in Procs : Starts(p) /\ NoSeparator(proc'[p].triple) => C29_Step(p)]_vars

---------------------------------------------------------------------------
(* C30: a call leaves the cached descriptor as it is.                      *)

\* a step of call p other than the answer of its own lookup
CallStep(p) == proc'[p] # proc[p] /\ ~LookupAnswered(p)

\* the endpoint with each placeholder that has a parameter replaced by its value
Substituted(endpoint, endpointParameters) ==
    [i \in 1..Len(endpoint) |->
        IF \E k \in KeysOf(endpointParameters) : endpoint[i] = "{" \o k \o "}"
        THEN GetField(endpointParameters,
                      CHOOSE k \in KeysOf(endpointParameters) : endpoint[i] = "{" \o k \o "}").v
        ELSE endpoint[i]]

\* the templates of the discovery service, placeholders included
TemplateDescriptors == WholeDescriptors(AlarmsTriple)

C30_Step(p) ==
    /\ CallStep(p) => cache' = cache
    /\ RequestSent(p) /\ proc[p].dreq = 0 =>
          /\ cache'[CacheKey(proc[p].triple)] \in TemplateDescriptors
          /\ \E i \in 1..Len(cache'[CacheKey(proc[p].triple)].endpoint) :
                cache'[CacheKey(proc[p].triple)].endpoint[i] = "{alarmName}"
          /\ proc[p].desc \in TemplateDescriptors
          /\ proc'[p].url = Substituted(proc[p].desc.endpoint, proc[p].params)

\* C30: no step of call() or safeCall() but the store of the answer of its own lookup
\* changes the cache, whatever the path parameters, the request data and the headers:
\* the entry keeps the template with its placeholders and its verb, and a later call
\* that finds it substitutes its own parameters into that template.
C30_DescriptorUnchanged == [][\A p \in Procs : C30_Step(p)]_vars

\* after a call with foo/ok has sent its request, a call that found the entry cached
\* has sent its request to the URL for bar/alarm, and the entry is the template
C30_Witness ==
    /\ proc[1].pc = "request" /\ proc[1].dreq = 1
    /\ proc[1].url = <<"https://sample-service.janis-test.in", "/api/alarms/", "foo", "/state/", "ok">>
    /\ proc[2].pc = "request" /\ proc[2].dreq = 0
    /\ proc[2].url = <<"https://sample-service.janis-test.in", "/api/alarms/", "bar", "/state/", "alarm">>
    /\ cache[CacheKey(AlarmsTriple)] =
          [endpoint |-> <<"https://sample-service.janis-test.in", "/api/alarms/", "{alarmName}",
                          "/state/", "{alarmState}">>,
           httpMethod |-> "POST"]

---------------------------------------------------------------------------
(* C31: the lists that follow the total count come to an end.              *)

\* C31: list() and safeList() of the total-count variants settle after finitely many
\* page requests whatever totals and pages the list API answers with: a list that is
\* waiting for a page has its result in the end.
C31_ListTerminates == (lister[1].pc = "page") ~> (lister[1].pc = "returning")

\* a page received held no item while its total was above the items gathered
EmptyPageReceived ==
    \E k \in 1..Len(lister[1].received) :
        /\ Len(lister[1].received[k].body.items) = 0
        /\ ItemsUpTo(lister[1].received, k) < TotalOf(lister[1].received, k)

\* a list goes on past every page a list of MaxItems items can need only after a page
\* without items
C31_OnlyEmptyPagesGoOn ==
    lister[1].pc = "page" /\ lister[1].page > PageCap => EmptyPageReceived

\* a list comes to an end unless a page without items has reported items to come
C31_TerminatesOrEmptyPage ==
    (lister[1].pc = "page") ~> (lister[1].pc = "returning" \/ EmptyPageReceived)

\* the list asks for yet another page, every page so far having held nothing
C31_StillAsking ==
    /\ lister[1].pc = "page" /\ lister[1].page > PageCap
    /\ lister[1].body = <<>>
    /\ lister[1].invoked = PageCap

---------------------------------------------------------------------------
(* C32: the mode safeList() leaves behind.                                 *)

\* safeList() of lister l hands its result to its caller in this step
SafeListFinishes(l) ==
    lister[l].pc = "returning" /\ lister[l].op = "safeList" /\ lister'[l].pc = "idle"

C32_Step(l) ==
    /\ SafeListFinishes(l) => makeSafeCall' = FALSE
    /\ (PageSettled(l) /\ lister[l].op = "list"
          /\ proc[l].rAns.kind = "resolve" /\ proc[l].rAns.status >= 400) =>
          /\ proc[l].kind = "call"
          /\ lister'[l].pc = "returning" /\ lister'[l].result.t = "rejected"

\* C32: whenever safeList() finishes, resolved or rejected, makeSafeCall is false, and a
\* page of a later list() on the instance answered with statusCode >= 400 has gone
\* through call() and makes list() reject.
C32_SafeListLeavesNormalMode == [][\A l \in Listers : C32_Step(l)]_vars

\* a safeList() that resolves leaves the flag false
C32_ResolvedSafeListClears ==
    [][\A l \in Listers :
          SafeListFinishes(l) /\ lister[l].result.t = "resolved" => makeSafeCall' = FALSE]_vars

\* a safeList() that rejects leaves the flag as it set it
C32_RejectedSafeListKeeps ==
    [][\A l \in Listers :
          SafeListFinishes(l) /\ lister[l].result.t = "rejected" => makeSafeCall' = TRUE]_vars

\* a list() issued after a safeList() that rejected has resolved with a page of
\* statusCode 500
C32_ListResolvedOnFailure ==
    \E l \in Listers :
        /\ lister[l].pc = "returning" /\ lister[l].op = "list"
        /\ makeSafeCall
        /\ lister[l].result.t = "resolved" /\ lister[l].result.value.statusCode = 500

---------------------------------------------------------------------------
(* C33: lists that run at the same time on one instance.                   *)

\* the call of the page lister l waits for goes through the method of its own mode
C33_OwnMode ==
    \A l \in Listers :
        lister[l].pc = "page" =>
            proc[l].kind = IF lister[l].op = "safeList" THEN "safeCall" ELSE "call"

C33_Step(l) ==
    (PageSettled(l) /\ proc[l].rAns.kind = "resolve" /\ proc[l].rAns.status >= 400) =>
        /\ lister'[l].pc = "returning"
        /\ lister'[l].result.t = IF lister[l].op = "safeList" THEN "resolved" ELSE "rejected"

\* C33: with a list() and a safeList(), or two safeList(), running at once on one
\* instance, every page of the list() goes through call() and every page of a safeList()
\* through safeCall(): on a page with statusCode >= 400 the list() rejects and the
\* safeList() does not.
C33_OwnModeKept == []C33_OwnMode /\ [][\A l \in Listers : C33_Step(l)]_vars

\* a list() started next to a running safeList() has resolved with a page of statusCode
\* 500
C33_ListResolvedOnFailure ==
    /\ lister[1].op = "safeList" /\ lister[1].pc = "page"
    /\ lister[2].op = "list" /\ lister[2].pc = "returning"
    /\ lister[2].result.t = "resolved" /\ lister[2].result.value.statusCode = 500


---------------------------------------------------------------------------
(* C34: setUserId(u).call(...) under concurrency.                          *)

\* the janis-api-key of a request made for user u
UserKey(u) == Str("service-" \o ServiceName \o "_user-" \o u.v)

C34_Step(p) ==
    RequestSent(p) /\ proc[p].chained # Undefined =>
        GetField(proc'[p].request.headers, "janis-api-key") = UserKey(proc[p].chained)

\* C34: the request of a call chained to setUserId(u) carries the user part of u, also
\* when another setUserId(v).call(...) was started on the instance before that request
\* was sent.
C34_ChainedUserKept == [][\A p \in Procs : C34_Step(p)]_vars

\* setUserId('user-a').call(...) and then setUserId('user-b').call(...) were started
\* before any request: the request of the first is out with the user part of user-b
C34_OtherUserSent ==
    /\ proc[1].chained = Str("user-a") /\ proc[2].chained = Str("user-b")
    /\ proc[1].pc = "request"
    /\ GetField(proc[1].request.headers, "janis-api-key") = UserKey(Str("user-b"))
    /\ proc[2].pc \in {"discovery", "endpoint", "ready"} /\ proc[2].rreq = 0

\* and the request of the second is out with no user part
C34_NoUserSent ==
    /\ proc[1].chained = Str("user-a") /\ proc[2].chained = Str("user-b")
    /\ proc[1].pc = "request" /\ proc[2].pc = "request"
    /\ GetField(proc[1].request.headers, "janis-api-key") = UserKey(Str("user-b"))
    /\ GetField(proc[2].request.headers, "janis-api-key") = Str("service-" \o ServiceName)

\* a request sent while the instance still holds the user id of the call's own
\* setUserId carries the user part of it
C34_ChainedAlone ==
    [][\A p \in Procs :
          RequestSent(p) /\ proc[p].chained # Undefined /\ apiKeyUser = proc[p].chained
             /\ userSet = proc[p].chained =>
          GetField(proc'[p].request.headers, "janis-api-key") = UserKey(proc[p].chained)]_vars

---------------------------------------------------------------------------
(* C35: no request without a usable secret.                                *)

\* every request with axios carries a non-empty string as janis-api-secret
C35_UsableSecret ==
    \A p \in Procs :
        proc[p].request # NoRequest =>
            LET secret == GetField(proc[p].request.headers, "janis-api-secret")
            IN  secret.t = "string" /\ secret.v # ""

\* call p goes through SecretFetcher.fetch() in this step, a fetch having failed before
FetchAfterFailure(p) ==
    /\ NoEnvSecret /\ secretValue = False
    /\ proc[p].pc = "endpoint" /\ proc'[p].pc # "endpoint"

C35_Step(p) ==
    FetchAfterFailure(p) =>
        /\ proc'[p].pc = "done"
        /\ proc'[p].outcome = Rejected(SecretMissing)
        /\ proc'[p].rreq = 0

\* C35: once a fetch from the secret store has failed, every later call() or safeCall()
\* (no JANIS_SERVICE_SECRET, not local) rejects with JANIS_SECRET_MISSING and sends no
\* request, and the janis-api-secret of every request sent is a non-empty string.
C35_NoRequestWithoutSecret == []C35_UsableSecret /\ [][\A p \in Procs : C35_Step(p)]_vars

\* a call made after a failed fetch, alone, has its request out with janis-api-secret
\* false and has not queried the secret store
C35_FalseSecretSent ==
    /\ NoEnvSecret /\ secretValue = False
    /\ proc[1].pc = "request" /\ proc[1].sreq = 0 /\ Alone(1)
    /\ GetField(proc[1].request.headers, "janis-api-secret") = False

\* the janis-api-secret of a request is a non-empty string or false
C35_SecretOrFalse ==
    \A p \in Procs :
        proc[p].request # NoRequest =>
            LET secret == GetField(proc[p].request.headers, "janis-api-secret")
            IN  secret = False \/ (secret.t = "string" /\ secret.v # "")

---------------------------------------------------------------------------
(* C36: one query of the secret store for a process.                       *)

\* call p sends a query to the secret store in this step
QueriesStore(p) == proc[p].sreq = 0 /\ proc'[p].sreq = 1

C36_Step(p) ==
    QueriesStore(p) =>
        /\ secretValue = Undefined
        /\ \A q \in Procs \ {p} : proc[q].pc # "secret"

\* C36: the secret store is queried at most once in a process: a call queries it only
\* when no fetch has stored a value yet and no query of another call is in flight.
C36_OneStoreQuery == [][\A p \in Procs : C36_Step(p)]_vars

\* two calls started before any secret was stored each have their own query in flight
C36_TwoQueries ==
    /\ NoEnvSecret /\ secretValue = Undefined
    /\ proc[1].pc = "secret" /\ proc[1].sreq = 1
    /\ proc[2].pc = "secret" /\ proc[2].sreq = 1

\* no call queries the store once a fetch has stored its value
C36_NoQueryAfterFetch ==
    [][\A p \in Procs : QueriesStore(p) => secretValue = Undefined]_vars

---------------------------------------------------------------------------
(* C37: shouldRetry on the two forms of one remote outcome.                *)

\* C37: for a response r with statusCode >= 400, shouldRetry of the error call() raises
\* for r is shouldRetry of r, the response safeCall() returns, whatever the body and the
\* text of its message.
C37_SameAnswerBothForms ==
    (retryOut # Undefined /\ retryIn.form = "error") =>
        retryOut.b = ShouldRetry(retryIn.from)

\* the error of a 500 whose message is 'Invalid client(unknown)' is not to be retried,
\* the response is
C37_FormsDiffer ==
    /\ retryIn.form = "error" /\ retryIn.from.statusCode = 500
    /\ retryIn.from.body = Obj(<< <<"message", Str("Invalid client(unknown)")>> >>)
    /\ retryOut = [t |-> "boolean", b |-> FALSE]
    /\ ShouldRetry(retryIn.from)

\* the two forms agree when the message of the service has no parenthesis
C37_SameAnswerPlainMessage ==
    (retryOut # Undefined /\ retryIn.form = "error"
        /\ FirstParen(ServiceMessage(retryIn.from), 1) = 0) =>
        retryOut.b = ShouldRetry(retryIn.from)

---------------------------------------------------------------------------
(* Properties of _getUrlWithEndpointParameters in the versions with the    *)
(* verb helpers.                                                           *)

\* each placeholder stands at most once in the template
OncePerPlaceholder(tokens) ==
    \A i \in 1..Len(tokens), j \in 1..Len(tokens) :
        (i # j /\ tokens[i] = tokens[j]) => tokens[i] \notin {"{x}", "{y}", "{z}"}

\* no {k} with k a key of the map stands in the URL
NoKeyPlaceholderLeft(m, tokens) ==
    \A k \in ParamKeys(m) : \A i \in 1..Len(tokens) : tokens[i] # Placeholder(k)

\* a map of two or more keys was given, its values are no placeholders, the template
\* holds each placeholder once, and the URL was computed
TwoKeysGiven ==
    /\ urlOut # Undefined
    /\ urlOut.t = "array"
    /\ Cardinality(ParamKeys(urlIn.endpointParameters)) >= 2
    /\ PlainValues(urlIn.endpointParameters)
    /\ OncePerPlaceholder(urlIn.endpoint)

\* C38: in the versions with the verb helpers, when two or more keys are given,
\* _getUrlWithEndpointParameters replaces the placeholder of every key, not only of one
\* of them: no {k} with k a key of the map remains in the URL requested
C38_EveryKeyReplaced ==
    TwoKeysGiven => NoKeyPlaceholderLeft(urlIn.endpointParameters, urlOut.items)

\* lib/microservice-call.js asks for a URL in which the placeholder of the first key
\* still stands
C38_FirstKeyLeft ==
    /\ urlOut # Undefined
    /\ urlOut.version = "lib"
    /\ urlIn.endpoint = AlarmsTemplate
    /\ urlIn.endpointParameters =
          Obj(<< <<"alarmName", Str("foo")>>, <<"alarmState", Str("ok")>> >>)
    /\ urlOut.t = "array"
    /\ Join(urlOut.items) = "/alarms/{alarmName}/state/ok"

\* the version of 3.0.0 replaces the placeholder of every key
C38_FixedEveryKeyReplaced ==
    (TwoKeysGiven /\ urlOut.version = "fixed") =>
        NoKeyPlaceholderLeft(urlIn.endpointParameters, urlOut.items)

\* lib/microservice-call.js changes no token but the first placeholder of the last key
C38_LibLastKeyOnly ==
    (urlOut # Undefined /\ urlOut.t = "array" /\ urlOut.version = "lib") =>
        LET fields == DefaultParameters(urlIn.endpointParameters).fields
        IN  \A i \in 1..Len(urlIn.endpoint) :
               urlOut.items[i] # urlIn.endpoint[i] =>
                  /\ fields # <<>>
                  /\ urlIn.endpoint[i] = Placeholder(fields[Len(fields)][1])
                  /\ IsFirst(urlIn.endpoint, i)
=============================================================================
